---- MODULE Spec2Model ----
(***************************************************************************)
(* A model of the classification and extraction engine of GraphAlgorithmKG *)
(* (multi-level index, entity-type cache, layered entity-type inferer,     *)
(* schema detector, hybrid triple extractor).                              *)
(*                                                                         *)
(* Strings are sequences of one-character strings, so that lower-casing,   *)
(* trimming, prefix and substring tests are computed, not assumed.         *)
(* Confidences are integers: a stored confidence is in percent (1.0 = 100) *)
(* and a confidence reported by search is in permille (1.0 = 1000), which  *)
(* keeps the decay factors 0.9 and 0.7 exact.                              *)
(***************************************************************************)
EXTENDS Integers, Sequences, FiniteSets, TLC

VARIABLES
    inverted,      \* InvertedIndex.index: insertion-ordered list of <<key, entries>>
    trie,          \* TrieIndex: node path -> [children, entries, is_end]
    patterns,      \* PatternIndex.patterns: list of <<pattern, entity_type, confidence>>
    stats,         \* MultiLevelIndex.stats (without the clock)
    built,         \* history: the <<keyword, entity_type>> pairs given to build_indexes
    last,          \* the last index operation and, for search, its hits and result
    ops,           \* number of index-changing operations so far
    verified_entities,   \* EntityTypeCache.verified_entities: key -> entry
    clock,               \* time.time() as a logical clock
    history,             \* history: key -> the first record call and the number of calls
    current_domain,      \* EnhancedEntityTypeInferer.current_domain
    type_keywords,       \* the keyword bank, a dict in insertion order
    type_patterns,       \* the pattern bank, a dict in insertion order
    context_indicators,  \* the context bank, a dict in insertion order
    infLast,             \* the last inferer operation and, for infer_entity_type, its result
    document,            \* the document (and seed knowledge) handed to detect_schema
    detLast,             \* the last detect_schema call, its oracle answer and its result
    extraction,          \* the text and the rule extractor's output for it
    hybLast,             \* the last HybridTripleExtractor.extract_triples call
    source_text,         \* the text given to extract_triples, as tokens
    templates,           \* DomainTemplateManager.templates: name -> template
    held,                \* templates a caller holds that are not registered
    heap,                \* the list and dict objects that templates refer to
    regOps,              \* number of registry operations so far
    regLast,             \* the last registry operation and its outcome
    triples,             \* the list of triples given to infer_entity_types_from_triples
    typLast,             \* the last call of the vote-based inferer and its result
    disk,                \* the files of index_dir that save_indexes writes
    origin               \* history: the index as it was when save_indexes was called

idxVars == <<inverted, trie, patterns, stats, built, last, ops>>

infVars == <<verified_entities, clock, history, current_domain, type_keywords,
             type_patterns, context_indicators, infLast>>

detVars == <<document, detLast>>

hybVars == <<extraction, hybLast, source_text>>

regVars == <<templates, held, heap, regOps, regLast>>

typVars == <<triples, typLast>>

stoVars == <<disk, origin>>

vars == <<idxVars, infVars, detVars, hybVars, regVars, typVars, stoVars>>

----------------------------------------------------------------------------
(* Bounds of the model. *)

MaxOps == 2
MaxTopK == 3
MaxRecords == 3
MaxRuleTriples == 3
MaxLLMTriples == 2
MaxSentences == 2
MaxRegistryOps == 3
MaxTriples == 3

----------------------------------------------------------------------------
(* Strings. *)

Chars == {"a", "b", "A", "B", " "}

\* the elements of a sequence
Range(s) == {s[i] : i \in 1..Len(s)}

LowerLetters ==
    <<"a", "b", "c", "d", "e", "f", "g", "h", "i", "j", "k", "l", "m",
      "n", "o", "p", "q", "r", "s", "t", "u", "v", "w", "x", "y", "z">>

UpperLetters ==
    <<"A", "B", "C", "D", "E", "F", "G", "H", "I", "J", "K", "L", "M",
      "N", "O", "P", "Q", "R", "S", "T", "U", "V", "W", "X", "Y", "Z">>

\* the ASCII letters
Letters == Range(LowerLetters) \cup Range(UpperLetters)

\* str.lower on the letters
ToLower == [c \in Range(UpperLetters) |->
               LowerLetters[CHOOSE i \in 1..26 : UpperLetters[i] = c]]

LowerChar(c) == IF c \in DOMAIN ToLower THEN ToLower[c] ELSE c

Lower(s) == [i \in 1..Len(s) |-> LowerChar(s[i])]

IsSpace(c) == c = " "

RECURSIVE LStrip(_)
LStrip(s) == IF s # <<>> /\ IsSpace(Head(s)) THEN LStrip(Tail(s)) ELSE s

RECURSIVE RStrip(_)
RStrip(s) ==
    IF s # <<>> /\ IsSpace(s[Len(s)]) THEN RStrip(SubSeq(s, 1, Len(s) - 1)) ELSE s

Strip(s) == RStrip(LStrip(s))

StartsWith(s, p) == Len(p) =< Len(s) /\ SubSeq(s, 1, Len(p)) = p

EndsWith(s, p) == Len(p) =< Len(s) /\ SubSeq(s, Len(s) - Len(p) + 1, Len(s)) = p

\* Python's "p in s" for strings
Contains(s, p) ==
    \E i \in 0..(Len(s) - Len(p)) : SubSeq(s, i + 1, i + Len(p)) = p

RECURSIVE SumSeq(_)
SumSeq(s) == IF s = <<>> THEN 0 ELSE Head(s) + SumSeq(Tail(s))

Min(a, b) == IF a < b THEN a ELSE b

Max(a, b) == IF a > b THEN a ELSE b

\* F(x, y) with x and y evaluated to values before F is applied, so that a
\* loop's running result is computed once per iteration
Eager2(F(_, _), x, y) == CHOOSE r \in {F(u, v) : u \in {x}, v \in {y}} : TRUE

----------------------------------------------------------------------------
(* Regular expressions.  A pattern is one of the three shapes the schemas  *)
(* use: a literal matched at the start ("lit"), ".*lit$", or a string that *)
(* re.compile rejects.                                                     *)

PStarts(lit) == [kind |-> "starts", lit |-> lit]
PEnds(lit) == [kind |-> "ends", lit |-> lit]
PInvalid == [kind |-> "invalid", lit |-> <<>>]

\* the pattern ^lit[A-Z]{min,}$: lit, then at least min letters up to the end
PLetters(lit, min) == [kind |-> "letters", lit |-> lit, min |-> min]

\* re.compile(pattern) succeeds
Compiles(p) == p.kind # "invalid"

\* re.match(pattern, term, re.IGNORECASE) for a pattern that compiles
ReMatch(p, term) ==
    IF p.kind = "starts" THEN StartsWith(Lower(term), Lower(p.lit))
    ELSE IF p.kind = "ends" THEN EndsWith(Lower(term), Lower(p.lit))
    ELSE IF p.kind = "letters"
         THEN /\ StartsWith(Lower(term), Lower(p.lit))
              /\ Len(term) - Len(p.lit) >= p.min
              /\ \A i \in (Len(p.lit) + 1)..Len(term) : term[i] \in Letters
    ELSE FALSE

----------------------------------------------------------------------------
(* Index entries and the three sub-indexes. *)

IndexEntry(term, entity_type, confidence, source) ==
    [term |-> term, entity_type |-> entity_type,
     confidence |-> confidence, source |-> source]

\* position of key in the inverted index, 0 if absent
KeyPos(inv, key) ==
    IF \E i \in 1..Len(inv) : inv[i][1] = key
    THEN CHOOSE i \in 1..Len(inv) : inv[i][1] = key
    ELSE 0

\* InvertedIndex.add
InvertedAdd(inv, term, entity_type, confidence, source) ==
    LET term_lower == Lower(term)
        entry == IndexEntry(term, entity_type, confidence, source)
        \* self.index[term_lower] on a defaultdict creates the key
        inv1 == IF KeyPos(inv, term_lower) = 0
                THEN Append(inv, <<term_lower, <<>>>>) ELSE inv
        pos == KeyPos(inv1, term_lower)
        existing == \E e \in Range(inv1[pos][2]) :
                        e.entity_type = entity_type /\ e.source = source
    IN  IF existing THEN inv1
        ELSE [inv1 EXCEPT ![pos] = <<term_lower, Append(inv1[pos][2], entry)>>]

\* InvertedIndex.get
InvertedGet(inv, term) ==
    LET pos == KeyPos(inv, Lower(term))
    IN  IF pos = 0 THEN <<>> ELSE inv[pos][2]

RECURSIVE SearchPartialFrom(_, _, _)
SearchPartialFrom(inv, term_lower, i) ==
    IF i > Len(inv) THEN <<>>
    ELSE (IF Contains(inv[i][1], term_lower) THEN inv[i][2] ELSE <<>>)
         \o SearchPartialFrom(inv, term_lower, i + 1)

\* InvertedIndex.search_partial
SearchPartial(inv, term) == SearchPartialFrom(inv, Lower(term), 1)

TrieNode == [children |-> <<>>, entries |-> <<>>, is_end |-> FALSE]

EmptyTrie == [p \in {<<>>} |-> TrieNode]

\* TrieIndex.insert
TrieInsert(tr, term, entity_type, confidence, source) ==
    LET term_lower == Lower(term)
        n == Len(term_lower)
        path(i) == SubSeq(term_lower, 1, i)
        walk == {path(i) : i \in 0..n}
        tr1 == [p \in (DOMAIN tr) \cup walk |->
                   IF p \in DOMAIN tr THEN tr[p] ELSE TrieNode]
        tr2 == [p \in DOMAIN tr1 |->
                   IF /\ Len(p) < n
                      /\ p = path(Len(p))
                      /\ path(Len(p) + 1) \notin DOMAIN tr
                   THEN [tr1[p] EXCEPT !.children = Append(@, term_lower[Len(p) + 1])]
                   ELSE tr1[p]]
        entry == IndexEntry(term, entity_type, confidence, source)
    IN  [tr2 EXCEPT ![term_lower] =
            [@ EXCEPT !.is_end = TRUE, !.entries = Append(@, entry)]]

RECURSIVE CollectEntries(_, _, _, _)
RECURSIVE CollectChildren(_, _, _, _, _)
\* TrieIndex._collect_entries
CollectEntries(tr, p, results, max_results) ==
    IF Len(results) >= max_results THEN results
    ELSE LET r1 == IF tr[p].is_end THEN results \o tr[p].entries ELSE results
         IN  CollectChildren(tr, p, 1, r1, max_results)

\* the loop over node.children.values() of _collect_entries
CollectChildren(tr, p, i, results, max_results) ==
    IF i > Len(tr[p].children) THEN results
    ELSE CollectChildren(tr, p, i + 1,
             CollectEntries(tr, Append(p, tr[p].children[i]), results, max_results),
             max_results)

\* TrieIndex.search_prefix
SearchPrefix(tr, prefix, max_results) ==
    LET prefix_lower == Lower(prefix)
    IN  IF prefix_lower \notin DOMAIN tr THEN <<>>
        ELSE CollectEntries(tr, prefix_lower, <<>>, max_results)

\* PatternIndex.add_pattern
AddPattern(pats, pattern, entity_type, confidence) ==
    IF Compiles(pattern) THEN Append(pats, <<pattern, entity_type, confidence>>)
    ELSE pats

RECURSIVE PatternMatchFrom(_, _, _)
PatternMatchFrom(pats, term, i) ==
    IF i > Len(pats) THEN <<>>
    ELSE (IF Compiles(pats[i][1]) /\ ReMatch(pats[i][1], term)
          THEN <<IndexEntry(term, pats[i][2], pats[i][3], "pattern")>>
          ELSE <<>>)
         \o PatternMatchFrom(pats, term, i + 1)

\* PatternIndex.match
PatternMatch(pats, term) == PatternMatchFrom(pats, term, 1)

----------------------------------------------------------------------------
(* MultiLevelIndex.search *)

\* the confidence search reports for a hit of a tier, from the stored (base)
\* confidence in percent, in permille
TierConfidencePartialUndecayed(tier, base) ==
    IF tier = "prefix" THEN base * 9 ELSE base * 10

TierConfidence(tier, base) ==
    IF tier = "exact" THEN base * 10
    ELSE IF tier = "prefix" THEN base * 9        \* entry.confidence * 0.9
    ELSE IF tier = "pattern" THEN base * 10
    ELSE base * 7                                \* entry.confidence * 0.7

Hit(tier, entry) ==
    [tier |-> tier, entity_type |-> entry.entity_type, base |-> entry.confidence,
     source |-> entry.source, confidence |-> TierConfidence(tier, entry.confidence)]

TierHits(tier, entries) == [i \in 1..Len(entries) |-> Hit(tier, entries[i])]

\* the list "results" of search before _deduplicate_and_rank, each element
\* tagged with the tier that appended it
SearchHits(inv, tr, pats, query, top_k) ==
    LET r1 == TierHits("exact", InvertedGet(inv, query))
        r2 == IF Len(r1) < top_k
              THEN r1 \o TierHits("prefix", SearchPrefix(tr, query, top_k - Len(r1)))
              ELSE r1
        r3 == IF Len(r2) < top_k
              THEN r2 \o TierHits("pattern", PatternMatch(pats, query))
              ELSE r2
        r4 == IF Len(r3) < top_k
              THEN r3 \o TierHits("partial", SearchPartial(inv, query))
              ELSE r3
    IN  r4

\* position of entity_type in a list of <<entity_type, confidence>>, 0 if absent
TypePos(scores, entity_type) ==
    IF \E i \in 1..Len(scores) : scores[i][1] = entity_type
    THEN CHOOSE i \in 1..Len(scores) : scores[i][1] = entity_type
    ELSE 0

RECURSIVE TypeScoresKeepFirst(_, _)
\* type_scores with the first confidence seen per type kept
TypeScoresKeepFirst(results, acc) ==
    IF results = <<>> THEN acc
    ELSE TypeScoresKeepFirst(Tail(results),
             IF TypePos(acc, Head(results)[1]) = 0 THEN Append(acc, Head(results))
             ELSE acc)

RECURSIVE TypeScores(_, _)
\* the dict type_scores of _deduplicate_and_rank, in insertion order
TypeScores(results, acc) ==
    IF results = <<>> THEN acc
    ELSE LET entity_type == Head(results)[1]
             confidence == Head(results)[2]
             pos == TypePos(acc, entity_type)
         IN  TypeScores(Tail(results),
                 IF pos = 0 THEN Append(acc, <<entity_type, confidence>>)
                 ELSE IF confidence > acc[pos][2]
                      THEN [acc EXCEPT ![pos] = <<entity_type, confidence>>]
                      ELSE acc)

RECURSIVE InsertDesc(_, _)
\* x placed after every element that is not smaller: a stable descending sort
InsertDesc(sorted, x) ==
    IF sorted = <<>> THEN <<x>>
    ELSE IF Head(sorted)[2] >= x[2] THEN <<Head(sorted)>> \o InsertDesc(Tail(sorted), x)
    ELSE <<x>> \o sorted

RECURSIVE SortedDesc(_, _)
\* sorted(items, key=confidence, reverse=True)
SortedDesc(items, acc) ==
    IF items = <<>> THEN acc ELSE SortedDesc(Tail(items), InsertDesc(acc, Head(items)))

RECURSIVE InsertAsc(_, _)
InsertAsc(sorted, x) ==
    IF sorted = <<>> THEN <<x>>
    ELSE IF Head(sorted)[2] =< x[2] THEN <<Head(sorted)>> \o InsertAsc(Tail(sorted), x)
    ELSE <<x>> \o sorted

RECURSIVE SortedAsc(_, _)
SortedAsc(items, acc) ==
    IF items = <<>> THEN acc ELSE SortedAsc(Tail(items), InsertAsc(acc, Head(items)))

Truncate(s, k) == SubSeq(s, 1, Min(k, Len(s)))

\* _deduplicate_and_rank with the sort in ascending order
DeduplicateAndRankAscending(results, top_k) ==
    Truncate(SortedAsc(TypeScores(results, <<>>), <<>>), top_k)

\* MultiLevelIndex._deduplicate_and_rank
DeduplicateAndRank(results, top_k) ==
    Truncate(SortedDesc(TypeScores(results, <<>>), <<>>), top_k)

\* MultiLevelIndex.search
Search(inv, tr, pats, query, top_k) ==
    LET hits == SearchHits(inv, tr, pats, query, top_k)
    IN  DeduplicateAndRank([i \in 1..Len(hits) |->
                               <<hits[i].entity_type, hits[i].confidence>>], top_k)

----------------------------------------------------------------------------
(* Inputs of the index operations. *)

Types == {"T1", "T2", "T3"}

\* A domain vocabulary: the (entity type, keyword) and (entity type, pattern)
\* pairs in the order build_indexes visits them.
Vocab1 == [keywords |-> << <<"T1", <<"a">>>>, <<"T2", <<"a", "b">>>> >>,
           patterns |-> << <<"T3", PStarts(<<"a">>)>>, <<"T1", PInvalid>> >>]

Vocab2 == [keywords |-> << <<"T2", <<"a">>>>, <<"T1", <<"b">>>> >>,
           patterns |-> << <<"T2", PEnds(<<"b">>)>> >>]

Vocab3 == [keywords |-> << <<"T3", <<"A">>>>, <<"T3", <<"b", "a">>>> >>,
           patterns |-> <<>>]

DomainVocabularies == {<<Vocab1>>, <<Vocab2>>, <<Vocab3>>, <<Vocab2, Vocab1>>}

LearnedTerms == {<<"a">>, <<"a", "b">>}

LearnedConfidences == {50, 80}

Queries == {<<"a">>, <<"A">>, <<"a", "b">>, <<"b">>}

----------------------------------------------------------------------------
(* Operations of MultiLevelIndex. *)

RECURSIVE BuildKeywords(_, _)
\* the keyword loop of build_indexes over one domain; ix = <<inverted, trie>>
BuildKeywords(ix, kws) ==
    IF kws = <<>> THEN ix
    ELSE BuildKeywords(
            <<InvertedAdd(ix[1], Head(kws)[2], Head(kws)[1], 100, "keyword"),
              TrieInsert(ix[2], Head(kws)[2], Head(kws)[1], 90, "keyword")>>,
            Tail(kws))

RECURSIVE BuildPatterns(_, _)
\* the pattern loop of build_indexes over one domain
BuildPatterns(pats, ps) ==
    IF ps = <<>> THEN pats
    ELSE BuildPatterns(AddPattern(pats, Head(ps)[2], Head(ps)[1], 80), Tail(ps))

RECURSIVE BuildDomains(_, _)
\* build_indexes: ix = <<inverted, trie, patterns>>
BuildDomains(ix, domain_vocabulary) ==
    IF domain_vocabulary = <<>> THEN ix
    ELSE LET v == Head(domain_vocabulary)
             kw == BuildKeywords(<<ix[1], ix[2]>>, v.keywords)
         IN  BuildDomains(<<kw[1], kw[2], BuildPatterns(ix[3], v.patterns)>>,
                          Tail(domain_vocabulary))

RECURSIVE CountTerms(_)
CountTerms(dv) == IF dv = <<>> THEN 0 ELSE Len(Head(dv).keywords) + CountTerms(Tail(dv))

RECURSIVE CountPatterns(_)
CountPatterns(dv) == IF dv = <<>> THEN 0 ELSE Len(Head(dv).patterns) + CountPatterns(Tail(dv))

RECURSIVE KeywordPairs(_)
KeywordPairs(dv) ==
    IF dv = <<>> THEN {}
    ELSE {<<kw[2], kw[1]>> : kw \in Range(Head(dv).keywords)} \cup KeywordPairs(Tail(dv))

NoSearch(op) == [op |-> op, query |-> <<>>, top_k |-> 0, hits |-> <<>>, result |-> <<>>]

IndexInit ==
    /\ inverted = <<>>
    /\ trie = EmptyTrie
    /\ patterns = <<>>
    /\ stats = [total_terms |-> 0, total_patterns |-> 0]
    /\ built = {}
    /\ last = NoSearch("init")
    /\ ops = 0

\* MultiLevelIndex.build_indexes
BuildIndexes(domain_vocabulary) ==
    /\ ops < MaxOps
    /\ LET ix == BuildDomains(<<inverted, trie, patterns>>, domain_vocabulary)
       IN  /\ inverted' = ix[1]
           /\ trie' = ix[2]
           /\ patterns' = ix[3]
    /\ stats' = [total_terms |-> stats.total_terms + CountTerms(domain_vocabulary),
                 total_patterns |-> stats.total_patterns + CountPatterns(domain_vocabulary)]
    /\ built' = built \cup KeywordPairs(domain_vocabulary)
    /\ last' = NoSearch("build_indexes")
    /\ ops' = ops + 1

\* MultiLevelIndex.add_learned_term
AddLearnedTerm(term, entity_type, confidence, source) ==
    /\ ops < MaxOps
    /\ inverted' = InvertedAdd(inverted, term, entity_type, confidence, source)
    /\ trie' = TrieInsert(trie, term, entity_type, confidence, source)
    /\ stats' = [stats EXCEPT !.total_terms = @ + 1]
    /\ last' = NoSearch("add_learned_term")
    /\ ops' = ops + 1
    /\ UNCHANGED <<patterns, built>>

\* MultiLevelIndex.search, its hits and result recorded in last
SearchOp(query, top_k) ==
    /\ last' = [op |-> "search", query |-> query, top_k |-> top_k,
                hits |-> SearchHits(inverted, trie, patterns, query, top_k),
                result |-> Search(inverted, trie, patterns, query, top_k)]
    /\ UNCHANGED <<inverted, trie, patterns, stats, built, ops>>

\* TrieIndex.search_prefix called on the trie, the returned entries recorded
\* in last
SearchPrefixOp(prefix, max_results) ==
    /\ last' = [op |-> "search_prefix", query |-> prefix, top_k |-> max_results,
                hits |-> <<>>, result |-> SearchPrefix(trie, prefix, max_results)]
    /\ UNCHANGED <<inverted, trie, patterns, stats, built, ops>>

----------------------------------------------------------------------------
(* EntityTypeCache and EnhancedEntityTypeInferer. *)

None == "None"

\* EntityTypeCache.confidence_threshold = 0.9, in percent
confidence_threshold == 90

\* An Optional value that may hold a record is the empty sequence (None) or
\* the one-element sequence of the record.
Some(x) == <<x>>

Nothing == <<>>

\* EntityTypeCache.get
CacheGet(cache, entity_name) ==
    IF Lower(entity_name) \in DOMAIN cache THEN Some(cache[Lower(entity_name)])
    ELSE Nothing

\* EntityTypeCache.add_verified_entity that overwrites an entry it finds
AddVerifiedEntityOverwriting(cache, entity_name, entity_type, confidence, source, now) ==
    LET key == Lower(entity_name)
        count == IF key \in DOMAIN cache THEN cache[key].count + 1 ELSE 1
    IN  [k \in (DOMAIN cache) \cup {key} |->
            IF k = key
            THEN [type |-> entity_type, confidence |-> confidence, source |-> source,
                  count |-> count, last_used |-> now]
            ELSE cache[k]]

\* EntityTypeCache.add_verified_entity
AddVerifiedEntity(cache, entity_name, entity_type, confidence, source, now) ==
    LET key == Lower(entity_name)
    IN  IF key \in DOMAIN cache
        THEN [cache EXCEPT ![key] = [@ EXCEPT !.count = @ + 1, !.last_used = now]]
        ELSE [k \in (DOMAIN cache) \cup {key} |->
                 IF k = key
                 THEN [type |-> entity_type, confidence |-> confidence,
                       source |-> source, count |-> 1, last_used |-> now]
                 ELSE cache[k]]

\* _cache_lookup with >= in place of >
CacheLookupAtThreshold(cache, entity_name) ==
    LET cached == CacheGet(cache, entity_name)
    IN  IF cached # Nothing /\ cached[1].confidence >= confidence_threshold
        THEN cached ELSE Nothing

\* EnhancedEntityTypeInferer._cache_lookup
CacheLookup(cache, entity_name) ==
    LET cached == CacheGet(cache, entity_name)
    IN  IF cached # Nothing /\ cached[1].confidence > confidence_threshold
        THEN cached ELSE Nothing

\* a bank (dict of entity type -> list) flattened to the <<entity type, item>>
\* pairs in the order the nested loops visit them
RECURSIVE BankPairs(_)
BankPairs(bank) ==
    IF bank = <<>> THEN <<>>
    ELSE [i \in 1..Len(Head(bank)[2]) |-> <<Head(bank)[1], Head(bank)[2][i]>>]
         \o BankPairs(Tail(bank))

Raised == "re.error"

RECURSIVE PatternMatchPairs(_, _)
PatternMatchPairs(pairs, entity_name) ==
    IF pairs = <<>> THEN None
    ELSE IF ~Compiles(Head(pairs)[2]) THEN Raised   \* re.match raises re.error
    ELSE IF ReMatch(Head(pairs)[2], entity_name) THEN Head(pairs)[1]
    ELSE PatternMatchPairs(Tail(pairs), entity_name)

\* EnhancedEntityTypeInferer._pattern_match: an entity type, None, or the
\* exception of an invalid pattern reached before any pattern matched
PatternMatchBank(bank, entity_name) == PatternMatchPairs(BankPairs(bank), entity_name)

\* type_scores[entity_type] += score, in a dict kept in insertion order
AddScore(scores, entity_type, score) ==
    LET pos == TypePos(scores, entity_type)
    IN  IF pos = 0 THEN Append(scores, <<entity_type, score>>)
        ELSE [scores EXCEPT ![pos] = <<entity_type, scores[pos][2] + score>>]

RECURSIVE FirstMax(_, _)
\* max(type_scores.items(), key=score): the first item of the largest score
FirstMax(scores, best) ==
    IF scores = <<>> THEN best
    ELSE FirstMax(Tail(scores), IF Head(scores)[2] > best[2] THEN Head(scores) ELSE best)

BestType(scores) == IF scores = <<>> THEN None ELSE FirstMax(Tail(scores), Head(scores))[1]

RECURSIVE KeywordScores(_, _, _)
KeywordScores(pairs, entity_lower, scores) ==
    IF pairs = <<>> THEN scores
    ELSE KeywordScores(Tail(pairs), entity_lower,
             IF Contains(entity_lower, Head(pairs)[2])
             THEN AddScore(scores, Head(pairs)[1], Len(Head(pairs)[2]))
             ELSE scores)

\* EnhancedEntityTypeInferer._keyword_match
KeywordMatch(bank, entity_name) ==
    BestType(KeywordScores(BankPairs(bank), Lower(entity_name), <<>>))

RECURSIVE ContextScores(_, _, _)
ContextScores(pairs, context_lower, scores) ==
    IF pairs = <<>> THEN scores
    ELSE ContextScores(Tail(pairs), context_lower,
             IF Contains(context_lower, Head(pairs)[2])
             THEN AddScore(scores, Head(pairs)[1], 1)
             ELSE scores)

\* EnhancedEntityTypeInferer._context_infer
ContextInfer(bank, entity_name, context) ==
    BestType(ContextScores(BankPairs(bank), Lower(context), <<>>))

InferenceResult(entity_type, confidence, method) ==
    [entity_type |-> entity_type, confidence |-> confidence, method |-> method]

\* the tiers of infer_entity_type after the index tier
InferFromBanks(kw, pt, cx, entity_name, context) ==
    LET pattern_result == PatternMatchBank(pt, entity_name)
        keyword_result == KeywordMatch(kw, entity_name)
        context_result == ContextInfer(cx, entity_name, context)
    IN  IF pattern_result = Raised THEN InferenceResult(None, 0, Raised)
        ELSE IF pattern_result # None THEN InferenceResult(pattern_result, 800, "pattern")
        ELSE IF keyword_result # None THEN InferenceResult(keyword_result, 700, "keyword")
        ELSE IF context # <<>> /\ context_result # None
             THEN InferenceResult(context_result, 600, "context")
        ELSE InferenceResult(None, 0, "unknown")

\* EnhancedEntityTypeInferer.infer_entity_type; confidences in permille; a
\* call that raises is the result of method Raised
InferEntityType(cache, inv, tr, pats, kw, pt, cx, entity_name, context) ==
    LET cached_result == CacheLookup(cache, entity_name)
        index_results == Search(inv, tr, pats, entity_name, 1)
    IN  IF cached_result # Nothing
        THEN InferenceResult(cached_result[1].type, cached_result[1].confidence * 10,
                             "cache")
        ELSE IF index_results # <<>>
        THEN InferenceResult(index_results[1][1], index_results[1][2], "index")
        ELSE InferFromBanks(kw, pt, cx, entity_name, context)

\* _init_base_structures: the built-in banks
BaseKeywords == << <<"T2", << <<"a", "b">> >> >> >>

BasePatterns == << <<"T1", << PEnds(<<"b">>) >> >> >>

BaseContextIndicators == << <<"T3", << <<"a", "b">> >> >> >>

\* the registered domain templates (template_manager.templates)
Templates ==
    [graph_algorithms |->
        [keywords |-> << <<"T1", << <<"b">> >> >> >>,
         patterns |-> << <<"T2", << PStarts(<<"b", "b">>) >> >> >>,
         context_indicators |-> << <<"T1", << <<"a">>, <<"b">> >> >>,
                                   <<"T2", << <<"a", "b", "a">> >> >> >>],
     spatiotemporal |->
        [keywords |-> << <<"T3", << <<"a">>, <<"b", "a">> >> >> >>,
         patterns |-> << <<"T3", << PInvalid, PStarts(<<"a">>) >> >> >>,
         context_indicators |-> <<>>]]

Domains == {"graph_algorithms", "spatiotemporal", "missing"}

\* template_manager.get_template
GetTemplate(domain_name) ==
    IF domain_name \in DOMAIN Templates THEN Some(Templates[domain_name]) ELSE Nothing

RECURSIVE DictUpdate(_, _)
\* dict.update: a present key keeps its place and takes the new value, a new
\* key is appended
DictUpdate(bank, upd) ==
    IF upd = <<>> THEN bank
    ELSE LET pos == TypePos(bank, Head(upd)[1])
         IN  DictUpdate(IF pos = 0 THEN Append(bank, Head(upd))
                        ELSE [bank EXCEPT ![pos] = Head(upd)],
                        Tail(upd))

\* _load_domain_config: the three banks after loading domain_name
LoadDomainConfig(kw, pt, cx, domain_name) ==
    LET template == GetTemplate(domain_name)
    IN  IF template = Nothing THEN <<kw, pt, cx>>
        ELSE <<DictUpdate(kw, template[1].keywords),
               DictUpdate(pt, template[1].patterns),
               DictUpdate(cx, template[1].context_indicators)>>

\* add_verified_entity arguments (entity_type, confidence in percent, source)
RecordInputs ==
    {<<"T1", 95, "llm_validation">>, <<"T2", 90, "rule">>, <<"T2", 100, "human_approved">>}

CachedNames == {<<"a">>, <<"A">>, <<"b", "a">>}

EntityNames == {<<"a">>, <<"A">>, <<"a", "b">>, <<"b", "a">>, <<"b">>, <<" ">>}

Contexts == {<<>>, <<"A">>, <<"b">>, <<"a", "b", "a">>}

NoInfer(op) ==
    [op |-> op, entity_name |-> <<>>, context |-> <<>>,
     result |-> InferenceResult(None, 0, "none")]

\* EnhancedEntityTypeInferer.__init__ with the default domain
InferInit ==
    /\ verified_entities = [k \in {} |-> None]
    /\ clock = 0
    /\ history = [k \in {} |-> None]
    /\ current_domain = "graph_algorithms"
    /\ LET banks == LoadDomainConfig(BaseKeywords, BasePatterns, BaseContextIndicators,
                                     "graph_algorithms")
       IN  /\ type_keywords = banks[1]
           /\ type_patterns = banks[2]
           /\ context_indicators = banks[3]
    /\ infLast = NoInfer("init")

\* update_cache_from_validation -> EntityTypeCache.add_verified_entity
RecordOp(entity_name, entity_type, confidence, source) ==
    /\ clock < MaxRecords
    /\ clock' = clock + 1
    /\ verified_entities' = AddVerifiedEntity(verified_entities, entity_name, entity_type,
                                              confidence, source, clock + 1)
    /\ LET key == Lower(entity_name)
       IN  history' = [k \in (DOMAIN history) \cup {key} |->
                          IF k # key THEN history[k]
                          ELSE IF key \in DOMAIN history
                               THEN [history[key] EXCEPT
                                        !.calls = @ + 1,
                                        !.latest = <<entity_type, confidence, source>>]
                               ELSE [type |-> entity_type, confidence |-> confidence,
                                     source |-> source, calls |-> 1,
                                     latest |-> <<entity_type, confidence, source>>]]
    /\ infLast' = NoInfer("add_verified_entity")
    /\ UNCHANGED <<current_domain, type_keywords, type_patterns, context_indicators>>

\* EnhancedEntityTypeInferer.switch_domain
SwitchDomain(domain_name) ==
    /\ current_domain' = domain_name
    /\ LET banks == LoadDomainConfig(type_keywords, type_patterns, context_indicators,
                                     domain_name)
       IN  /\ type_keywords' = banks[1]
           /\ type_patterns' = banks[2]
           /\ context_indicators' = banks[3]
    /\ infLast' = NoInfer("switch_domain")
    /\ UNCHANGED <<verified_entities, clock, history>>

\* infer_entity_type with a cache hit counted in the entry, as
\* add_verified_entity counts a repeated record
InferOpCountingHits(entity_name, context) ==
    /\ infLast' = [op |-> "infer_entity_type", entity_name |-> entity_name,
                   context |-> context,
                   result |-> InferEntityType(verified_entities, inverted, trie, patterns,
                                              type_keywords, type_patterns,
                                              context_indicators, entity_name, context)]
    /\ verified_entities' =
           IF CacheLookup(verified_entities, entity_name) # Nothing
              /\ verified_entities[Lower(entity_name)].count =< MaxRecords
           THEN [verified_entities EXCEPT ![Lower(entity_name)].count = @ + 1]
           ELSE verified_entities
    /\ UNCHANGED <<clock, history, current_domain, type_keywords,
                   type_patterns, context_indicators>>

\* EnhancedEntityTypeInferer.infer_entity_type, its result recorded in infLast
InferOp(entity_name, context) ==
    /\ infLast' = [op |-> "infer_entity_type", entity_name |-> entity_name,
                   context |-> context,
                   result |-> InferEntityType(verified_entities, inverted, trie, patterns,
                                              type_keywords, type_patterns,
                                              context_indicators, entity_name, context)]
    /\ UNCHANGED <<verified_entities, clock, history, current_domain, type_keywords,
                   type_patterns, context_indicators>>

\* one element of review_data["items"]: approved is "true", "false" or
\* "unset" (the key absent or null), data is absent (Nothing) or holds the
\* entity and the type
ReviewItem(approved, data) == [approved |-> approved, data |-> data]

ReviewData(entity, type) == Some([entity |-> entity, type |-> type])

\* the first record call of a key and the number of calls, after one more call
HistoryAdd(hist, entity_name, entity_type, confidence, source) ==
    LET key == Lower(entity_name)
    IN  [k \in (DOMAIN hist) \cup {key} |->
            IF k # key THEN hist[k]
            ELSE IF key \in DOMAIN hist
                 THEN [hist[key] EXCEPT !.calls = @ + 1,
                                        !.latest = <<entity_type, confidence, source>>]
                 ELSE [type |-> entity_type, confidence |-> confidence,
                       source |-> source, calls |-> 1,
                       latest |-> <<entity_type, confidence, source>>]]

RECURSIVE ImportItems(_, _)
\* the loop of CacheManager.import_reviewed_entities; st holds the cache, the
\* clock, the history and the approved items processed so far.  An approved
\* item without "data" raises KeyError, which ends the loop (the except
\* clause of the method catches it).
ImportItems(items, st) ==
    IF items = <<>> THEN st
    ELSE LET item == Head(items)
         IN  IF item.approved # "true" THEN ImportItems(Tail(items), st)
             ELSE IF item.data = Nothing THEN st
             ELSE Eager2(ImportItems, Tail(items),
                    [cache |-> AddVerifiedEntity(st.cache, item.data[1].entity,
                                                 item.data[1].type, 100,
                                                 "human_approved", st.now + 1),
                     now |-> st.now + 1,
                     hist |-> HistoryAdd(st.hist, item.data[1].entity, item.data[1].type,
                                         100, "human_approved"),
                     done |-> Append(st.done, item.data[1])])

ApprovedCount(items) == Cardinality({i \in 1..Len(items) : items[i].approved = "true"})

\* CacheManager.import_reviewed_entities on the items of a review file; the
\* entities of the approved items it processed are recorded in infLast
ImportReviewedEntities(items) ==
    /\ clock + ApprovedCount(items) =< MaxRecords
    /\ \E st \in {ImportItems(items, [cache |-> verified_entities, now |-> clock,
                                      hist |-> history, done |-> <<>>])} :
           /\ verified_entities' = st.cache
           /\ clock' = st.now
           /\ history' = st.hist
           /\ infLast' = [op |-> "import_reviewed_entities", entity_name |-> <<>>,
                          context |-> <<>>, result |-> InferenceResult(None, 0, "none"),
                          imported |-> st.done]
    /\ UNCHANGED <<current_domain, type_keywords, type_patterns, context_indicators>>

ReviewFiles ==
    {<<ReviewItem("true", ReviewData(<<"A">>, "T1"))>>,
     <<ReviewItem("false", ReviewData(<<"a">>, "T2")),
       ReviewItem("true", ReviewData(<<"b", "a">>, "T3"))>>,
     <<ReviewItem("unset", ReviewData(<<"a">>, "T2")), ReviewItem("true", Nothing),
       ReviewItem("true", ReviewData(<<"a">>, "T1"))>>}

----------------------------------------------------------------------------
(* SchemaDetector.  Scores are in units of 1/2400, which keeps the weights *)
(* 0.4/0.3/0.3 and the divisions by the type and relation counts exact:    *)
(* 1.0 = 2400.  A sub-score is in units of 1/240.                          *)

One == 2400

\* if final_score > 0.05
ScoreFloor == 120

\* if confidence_diff < 0.1
TieBreakThreshold == 240

\* result.confidence += 0.1
LLMBonus == 240

\* ontology_managers, in load order: schema_file, the number of entity types
\* and the number of relation types of each schema
SchemaRegistry ==
    << [schema_file |-> <<"a">>, total_types |-> 1, total_relations |-> 1],
       [schema_file |-> <<"b", "a">>, total_types |-> 2, total_relations |-> 1],
       [schema_file |-> <<"b", "b">>, total_types |-> 1, total_relations |-> 2] >>

\* len(seed_knowledge) when seed knowledge is supplied
SeedTriples == 2

\* _ontology_based_detection, from the numbers of example entities and keywords
\* of the schema found in the text
OntologyScore(schema, matched_entities, matched_keywords) ==
    Min((20 * (3 * matched_entities + 2 * matched_keywords)) \div schema.total_types, 240)

\* _seed_knowledge_detection, from the number of distinct seed predicates that
\* are relation types of the schema and of seed entities with an inferred type
SeedScore(schema, matched_relations, matched_entities) ==
    Min((60 * (2 * SeedTriples * matched_relations
                 + schema.total_relations * matched_entities))
            \div (SeedTriples * schema.total_relations), 240)

\* _document_structure_detection, from the number of pattern matches in the text
DocumentScore(structure_matches) ==
    IF structure_matches > 0 THEN Min(24 * structure_matches, 240) ELSE 0

\* final_score with the seed score counted whether or not seed knowledge is
\* supplied
FinalScoreSeedAlways(schema, m, seed_supplied) ==
    4 * OntologyScore(schema, m.entities, m.keywords)
    + 3 * SeedScore(schema, m.relations, m.seed_entities)
    + 3 * DocumentScore(m.structure)

\* final_score of detect_schema for one schema; m is what the document matches
\* of the schema
FinalScore(schema, m, seed_supplied) ==
    4 * OntologyScore(schema, m.entities, m.keywords)
    + 3 * (IF seed_supplied THEN SeedScore(schema, m.relations, m.seed_entities) ELSE 0)
    + 3 * DocumentScore(m.structure)

SchemaDetectionResult(schema_file, confidence, method) ==
    [schema_file |-> schema_file, confidence |-> confidence, method |-> method]

RECURSIVE InsertByConfidence(_, _)
InsertByConfidence(sorted, x) ==
    IF sorted = <<>> THEN <<x>>
    ELSE IF Head(sorted).confidence >= x.confidence
         THEN <<Head(sorted)>> \o InsertByConfidence(Tail(sorted), x)
    ELSE <<x>> \o sorted

RECURSIVE SortByConfidence(_, _)
\* results.sort(key=confidence, reverse=True): stable
SortByConfidence(items, acc) ==
    IF items = <<>> THEN acc
    ELSE SortByConfidence(Tail(items), InsertByConfidence(acc, Head(items)))

RECURSIVE ScoredSchemas(_, _)
\* the loop of detect_schema over ontology_managers
ScoredSchemas(i, doc) ==
    IF i > Len(SchemaRegistry) THEN <<>>
    ELSE LET final_score == FinalScore(SchemaRegistry[i], doc.matches[i], doc.seed_supplied)
         IN  (IF final_score > ScoreFloor
              THEN <<SchemaDetectionResult(SchemaRegistry[i].schema_file, final_score,
                                           "hybrid")>>
              ELSE <<>>)
             \o ScoredSchemas(i + 1, doc)

\* the answers of LLMClient._mock_response to a schema prompt
MockSpatiotemporalAnswer == <<"b", "a">>      \* "spatiotemporal_schema.yaml"

MockConfigAnswer == <<"A">>                   \* "../schema_config.yaml"

MockDefaultAnswer == <<" ">>                  \* the default text

\* LLMClient._mock_response for the prompt of _llm_schema_decision, which
\* always holds "schema" and holds the first 1000 characters of the document
MockResponse(prompt) ==
    IF prompt = "choose_temporal" THEN MockSpatiotemporalAnswer
    ELSE IF prompt = "choose_architecture" THEN MockConfigAnswer
    ELSE IF prompt = "choose" THEN MockSpatiotemporalAnswer
    ELSE MockDefaultAnswer

\* LLMClient.generate_response: the API's text, or the mock response in mock
\* mode and when the API call fails
GenerateResponse(oracle, prompt) ==
    IF oracle.kind = "response" THEN oracle.text ELSE MockResponse(prompt)

RECURSIVE FirstNamed(_, _)
FirstNamed(candidates, response) ==
    IF candidates = <<>> THEN Nothing
    ELSE IF Contains(response, Head(candidates).schema_file)
         THEN Some(Head(candidates).schema_file)
    ELSE FirstNamed(Tail(candidates), response)

\* SchemaDetector._llm_schema_decision
LLMSchemaDecision(oracle, prompt, candidate_schemas) ==
    IF oracle.kind = "exception" THEN Nothing        \* except Exception: return None
    ELSE FirstNamed(candidate_schemas, GenerateResponse(oracle, prompt))

\* position of the first result of schema_file, 0 if there is none
ResultPos(results, schema_file) ==
    IF \E i \in 1..Len(results) : results[i].schema_file = schema_file
    THEN CHOOSE i \in 1..Len(results) :
             /\ results[i].schema_file = schema_file
             /\ \A j \in 1..(i - 1) : results[j].schema_file # schema_file
    ELSE 0

\* the tie-break block of detect_schema, on the sorted results
TieBreak(results, oracle, prompt) ==
    LET llm_result == LLMSchemaDecision(oracle, prompt, SubSeq(results, 1, 2))
        pos == IF llm_result = Nothing THEN 0 ELSE ResultPos(results, llm_result[1])
    IN  IF llm_result = Nothing THEN results
        ELSE SortByConfidence(
                 IF pos = 0 THEN results
                 ELSE [results EXCEPT ![pos] =
                          SchemaDetectionResult(@.schema_file, @.confidence + LLMBonus,
                                                "llm_assisted")],
                 <<>>)

\* the condition under which detect_schema consults the oracle
TieBreakApplies(results, use_llm) ==
    /\ use_llm
    /\ Len(results) >= 2
    /\ results[1].confidence - results[2].confidence < TieBreakThreshold

\* SchemaDetector.detect_schema
DetectSchema(doc, use_llm, oracle) ==
    LET results == SortByConfidence(ScoredSchemas(1, doc), <<>>)
    IN  IF TieBreakApplies(results, use_llm)
        THEN TieBreak(results, oracle, doc.prompt)
        ELSE results

\* what a document matches of one schema: numbers of example entities,
\* keywords, seed relations, seed entities and pattern matches
Matches(e, k, r, se, st) ==
    [entities |-> e, keywords |-> k, relations |-> r, seed_entities |-> se,
     structure |-> st]

MatchProfiles ==
    {Matches(0, 0, 0, 0, 0), Matches(0, 1, 0, 0, 0), Matches(1, 2, 0, 1, 5),
     Matches(1, 2, 1, 2, 6), Matches(2, 3, 1, 4, 9), Matches(2, 6, 1, 4, 10)}

ThirdProfiles == {Matches(0, 0, 0, 0, 0), Matches(1, 2, 0, 1, 5)}

Prompts == {"choose_temporal", "choose_architecture", "choose", "plain"}

Documents ==
    {[matches |-> <<m1, m2, m3>>, seed_supplied |-> sd, prompt |-> pr] :
        m1 \in MatchProfiles, m2 \in MatchProfiles, m3 \in ThirdProfiles,
        sd \in BOOLEAN, pr \in Prompts}

\* what the oracle does when _llm_schema_decision calls it
OracleOutcomes ==
    {[kind |-> "response", text |-> t] :
        t \in {<<"a">>, <<"b", "a">>, <<"b", "b">>, <<"b", "b", "a">>, <<" ">>}}
    \cup {[kind |-> k, text |-> <<>>] : k \in {"api_error", "mock_mode", "exception"}}

NoDocument == [matches |-> <<>>, seed_supplied |-> FALSE, prompt |-> "plain"]

NoDetect ==
    [op |-> "init", use_llm |-> FALSE, oracle |-> [kind |-> "none", text |-> <<>>],
     ranked |-> <<>>, results |-> <<>>]

DetectIdle ==
    /\ document = NoDocument
    /\ detLast = NoDetect

DetectInit ==
    /\ document \in Documents
    /\ detLast = NoDetect

\* SchemaDetector.detect_schema on the document, the ranking before the
\* tie-break and the returned list recorded in detLast
DetectOp(use_llm, oracle) ==
    /\ detLast' = [op |-> "detect_schema", use_llm |-> use_llm, oracle |-> oracle,
                   ranked |-> SortByConfidence(ScoredSchemas(1, document), <<>>),
                   results |-> DetectSchema(document, use_llm, oracle)]
    /\ UNCHANGED document

\* what the oracle does on a call made by build_knowledge_graph
BuildOracles ==
    {[kind |-> "response", text |-> t] : t \in {<<"a">>, <<"b", "a">>, <<" ">>}}
    \cup {[kind |-> "exception", text |-> <<>>]}

\* SchemaDetector.get_best_schema: detect_schema once more, with use_llm at
\* its default True; the first result's schema, or None
GetBestSchema(doc, oracle) ==
    LET results == DetectSchema(doc, TRUE, oracle)
    IN  IF results # <<>> /\ results[1].confidence > ScoreFloor
        THEN Some(results[1].schema_file) ELSE Nothing

\* SchemaBasedKGBuilder.build_knowledge_graph up to the schema_detection
\* stage: the candidate list of its own detect_schema call, then the schema
\* get_best_schema selects; the oracle answers each of the two calls on its
\* own.  No seed knowledge is passed.  Without a selected schema the method
\* raises ValueError and records nothing.
BuildKnowledgeGraphOp(oracle, second_oracle) ==
    /\ \E doc \in {[document EXCEPT !.seed_supplied = FALSE]} :
       \E schema_results \in {DetectSchema(doc, TRUE, oracle)},
          best_schema \in {GetBestSchema(doc, second_oracle)} :
           detLast' = [op |-> "build_knowledge_graph", use_llm |-> TRUE,
                       oracle |-> oracle, second_oracle |-> second_oracle,
                       ranked |-> SortByConfidence(ScoredSchemas(1, doc), <<>>),
                       results |-> schema_results,
                       raised |-> best_schema = Nothing,
                       candidates |-> IF best_schema = Nothing THEN <<>>
                                      ELSE schema_results,
                       selected_schema |-> best_schema]
    /\ UNCHANGED document

----------------------------------------------------------------------------
(* HybridTripleExtractor.  Triple confidences are in percent.  A text is   *)
(* given by what _calculate_text_complexity measures of it.                *)

\* self.min_rule_confidence = 0.6
min_rule_confidence == 60

\* self.min_rule_count = 3
min_rule_count == 3

\* self.use_llm_fallback = True
use_llm_fallback == TRUE

\* a triple dict; an item of an oracle response may lack keys or be no dict
Triple(subject, predicate, object, confidence, method) ==
    [shape |-> "triple", subject |-> subject, predicate |-> predicate,
     object |-> object, confidence |-> confidence, has_confidence |-> TRUE,
     method |-> method, evidence |-> "evidence"]

\* an item of the oracle's JSON list in the format the prompt asks for:
\* subject, predicate, object and confidence, no method and no evidence
ResponseItem(subject, predicate, object, confidence) ==
    [Triple(subject, predicate, object, confidence, "absent") EXCEPT
        !.evidence = "absent"]

\* triple.get("confidence", 0)
Confidence(triple) == IF triple.has_confidence THEN triple.confidence ELSE 0

\* (subject.lower().strip(), predicate.lower().strip(), object.lower().strip())
TripleKey(triple) ==
    <<Strip(Lower(triple.subject)), Strip(Lower(triple.predicate)),
      Strip(Lower(triple.object))>>

\* _calculate_text_complexity
CalculateTextComplexity(text) ==
    text.char_count + text.sentence_count * 10 + text.entity_estimate * 5

HighConfidenceCount(rule_triples) ==
    Cardinality({i \in 1..Len(rule_triples) :
                    Confidence(rule_triples[i]) >= min_rule_confidence})

\* _should_use_llm_fallback without its third condition
ShouldUseLLMFallbackNoDensity(rule_triples, text) ==
    IF Len(rule_triples) < min_rule_count THEN TRUE
    ELSE 2 * HighConfidenceCount(rule_triples) < Len(rule_triples)

\* _should_use_llm_fallback with <= in its first condition
ShouldUseLLMFallbackAtMinCount(rule_triples, text) ==
    IF Len(rule_triples) =< min_rule_count THEN TRUE
    ELSE ShouldUseLLMFallbackNoDensity(rule_triples, text)

\* HybridTripleExtractor._should_use_llm_fallback
ShouldUseLLMFallback(rule_triples, text) ==
    IF Len(rule_triples) < min_rule_count THEN TRUE
    \* high_confidence_count / len(rule_triples) < 0.5
    ELSE IF 2 * HighConfidenceCount(rule_triples) < Len(rule_triples) THEN TRUE
    ELSE LET text_complexity == CalculateTextComplexity(text)
             expected_triples == Max(3, text_complexity \div 100)
         \* len(rule_triples) < expected_triples * 0.5
         IN  2 * Len(rule_triples) < expected_triples

\* the JSON list of LLMClient._mock_response for an extraction prompt whose
\* text has none of the words of the earlier branches
MockResponseTriples ==
    << ResponseItem(<<"b", "b">>, <<"a">>, <<"b">>, 70),
       ResponseItem(<<"b", "a">>, <<"b">>, <<"b">>, 70) >>

\* the list of LLMClient._generate_mock_triples (mock mode)
GeneratedMockTriples ==
    << ResponseItem(<<"b", "b">>, <<"a">>, <<"b">>, 70) >>

\* LLMClient.extract_triples: the list it returns for what the oracle does
ClientExtractTriples(oracle) ==
    IF oracle.kind = "mock_mode" THEN GeneratedMockTriples
    ELSE IF oracle.kind = "api_error" THEN MockResponseTriples
    ELSE IF oracle.kind = "json_list" THEN oracle.items
    ELSE <<>>                        \* not JSON, or invalid JSON

\* the loop of _llm_extract_triples that tags the oracle's triples
TagLLMTriples(llm_triples) ==
    [i \in 1..Len(llm_triples) |->
        [llm_triples[i] EXCEPT
            !.method = IF @ = "absent" THEN "llm_extraction" ELSE @,
            !.evidence = IF @ = "absent" THEN "LLM generated" ELSE @]]

\* HybridTripleExtractor._llm_extract_triples: raises on an item that is no dict
LLMExtractTriples(oracle) ==
    LET llm_triples == ClientExtractTriples(oracle)
    IN  IF \E i \in 1..Len(llm_triples) : llm_triples[i].shape = "not_object"
        THEN [raised |-> TRUE, triples |-> <<>>]
        ELSE [raised |-> FALSE, triples |-> TagLLMTriples(llm_triples)]

\* position of the triple of this key in unique_triples, 0 if there is none
UniquePos(unique_triples, triple_key) ==
    IF \E i \in 1..Len(unique_triples) : TripleKey(unique_triples[i]) = triple_key
    THEN CHOOSE i \in 1..Len(unique_triples) :
             /\ TripleKey(unique_triples[i]) = triple_key
             /\ \A j \in 1..(i - 1) : TripleKey(unique_triples[j]) # triple_key
    ELSE 0

\* the deduplication loop keeping every triple
UniqueTriplesKeepAll(all_triples, unique_triples) == unique_triples \o all_triples

RECURSIVE UniqueTriples(_, _)
\* the deduplication loop of _merge_and_deduplicate
UniqueTriples(all_triples, unique_triples) ==
    IF all_triples = <<>> THEN unique_triples
    ELSE LET triple == Head(all_triples)
             pos == UniquePos(unique_triples, TripleKey(triple))
         IN  Eager2(UniqueTriples, Tail(all_triples),
                    IF pos = 0 THEN Append(unique_triples, triple)
                    ELSE IF Confidence(triple) > Confidence(unique_triples[pos])
                         THEN [unique_triples EXCEPT ![pos] = triple]
                         ELSE unique_triples)

RECURSIVE InsertTriple(_, _)
InsertTriple(sorted, x) ==
    IF sorted = <<>> THEN <<x>>
    ELSE IF Confidence(Head(sorted)) >= Confidence(x)
         THEN <<Head(sorted)>> \o InsertTriple(Tail(sorted), x)
    ELSE <<x>> \o sorted

RECURSIVE SortTriples(_, _)
\* unique_triples.sort(key=confidence, reverse=True): stable
SortTriples(items, acc) ==
    IF items = <<>> THEN acc
    ELSE Eager2(SortTriples, Tail(items), InsertTriple(acc, Head(items)))

\* _merge_and_deduplicate without its final sort
MergeAndDeduplicateUnsorted(rule_triples, llm_triples) ==
    LET all_triples == rule_triples \o llm_triples
    IN  IF \E i \in 1..Len(all_triples) : all_triples[i].shape = "no_subject"
        THEN [raised |-> TRUE, triples |-> <<>>]
        ELSE [raised |-> FALSE, triples |-> UniqueTriples(all_triples, <<>>)]

\* HybridTripleExtractor._merge_and_deduplicate: raises KeyError on a dict
\* without "subject"
MergeAndDeduplicate(rule_triples, llm_triples) ==
    LET all_triples == rule_triples \o llm_triples
    IN  IF \E i \in 1..Len(all_triples) : all_triples[i].shape = "no_subject"
        THEN [raised |-> TRUE, triples |-> <<>>]
        ELSE [raised |-> FALSE,
              triples |-> SortTriples(UniqueTriples(all_triples, <<>>), <<>>)]

\* HybridTripleExtractor.extract_triples on the rule extractor's output
ExtractTriples(rule_triples, text, oracle) ==
    LET need_llm_fallback == ShouldUseLLMFallback(rule_triples, text)
        llm_invoked == need_llm_fallback /\ use_llm_fallback
        llm == IF llm_invoked THEN LLMExtractTriples(oracle)
               ELSE [raised |-> FALSE, triples |-> <<>>]
        merged == MergeAndDeduplicate(rule_triples, llm.triples)
        raised == llm.raised \/ merged.raised
    IN  [raised |-> raised,
         llm_invoked |-> llm_invoked,
         llm_triples |-> llm.triples,
         triples |-> IF raised THEN <<>> ELSE merged.triples,
         rule_count |-> Len(rule_triples),
         llm_count |-> Len(llm.triples),
         methods_used |-> IF llm_invoked THEN <<"rule_extraction", "llm_extraction">>
                          ELSE <<"rule_extraction">>]

\* triples the rule extractor may put out
RuleTriples ==
    {Triple(<<"a">>, <<"a">>, <<"b">>, 60, "rule_instance"),
     Triple(<<"A">>, <<"a">>, <<"b">>, 90, "rule_instance"),
     Triple(<<" ", "a">>, <<"A">>, <<"b", " ">>, 50, "rule_cooccurrence"),
     Triple(<<"b">>, <<"a">>, <<"b">>, 90, "rule_temporal")}

\* items of a JSON list the oracle may answer with
LLMItems ==
    {ResponseItem(<<"a", " ">>, <<"a">>, <<"B">>, 95),
     [Triple(<<"b">>, <<"a">>, <<"b">>, 0, "custom") EXCEPT !.has_confidence = FALSE]}

\* an item without "subject", and an item that is no JSON object
MalformedItems ==
    {[ResponseItem(<<>>, <<"a">>, <<"b">>, 80) EXCEPT !.shape = "no_subject"],
     [ResponseItem(<<>>, <<>>, <<>>, 0) EXCEPT !.shape = "not_object"]}

RECURSIVE SeqsUpTo(_, _)
\* the sequences over S of length at most n
SeqsUpTo(S, n) ==
    IF n = 0 THEN {<<>>}
    ELSE LET shorter == SeqsUpTo(S, n - 1)
         IN  shorter \cup {Append(q, x) : q \in {r \in shorter : Len(r) = n - 1}, x \in S}

\* what _calculate_text_complexity measures of a text: len(text), the number
\* of sentences longer than 5 characters, the number of capitalised words
Texts ==
    {[char_count |-> 0, sentence_count |-> 0, entity_estimate |-> 0],
     [char_count |-> 95, sentence_count |-> 2, entity_estimate |-> 3],
     [char_count |-> 620, sentence_count |-> 5, entity_estimate |-> 6]}

\* what the oracle does during the fallback pass
ExtractionOracles ==
    {[kind |-> "json_list", items |-> q] : q \in SeqsUpTo(LLMItems, MaxLLMTriples)}
    \cup {[kind |-> "json_list", items |-> <<m>>] : m \in MalformedItems}
    \cup {[kind |-> k, items |-> <<>>] :
             k \in {"not_json", "invalid_json", "api_error", "mock_mode"}}

NoExtract ==
    [op |-> "init", oracle |-> [kind |-> "none", items |-> <<>>],
     result |-> [raised |-> FALSE, llm_invoked |-> FALSE, llm_triples |-> <<>>,
                 triples |-> <<>>, rule_count |-> 0, llm_count |-> 0,
                 methods_used |-> <<>>]]

HybridIdle ==
    /\ extraction = [text |-> [char_count |-> 0, sentence_count |-> 0,
                               entity_estimate |-> 0],
                     rule_triples |-> <<>>]
    /\ hybLast = NoExtract
    /\ source_text = <<>>

HybridInit ==
    /\ extraction \in {[text |-> t, rule_triples |-> r] :
                          t \in Texts, r \in SeqsUpTo(RuleTriples, MaxRuleTriples)}
    /\ hybLast = NoExtract
    /\ source_text = <<>>

\* HybridTripleExtractor.extract_triples, its result recorded in hybLast
ExtractOp(oracle) ==
    /\ hybLast' = [op |-> "extract_triples", oracle |-> oracle,
                   result |-> ExtractTriples(extraction.rule_triples, extraction.text,
                                             oracle)]
    /\ UNCHANGED <<extraction, source_text>>

----------------------------------------------------------------------------
(* RuleBasedTripleExtractor.  A text is a sequence of tokens: words over   *)
(* Letters separated by one blank, and the full stop, which follows its    *)
(* word without a blank.                                                   *)

\* self.type_keywords of _init_base_structures; the keywords in Chinese are
\* left out, no text over Letters contains them
BuiltinKeywords ==
    << <<"Algorithm",
        << <<"a", "l", "g", "o", "r", "i", "t", "h", "m">>,
           <<"m", "e", "t", "h", "o", "d">>,
           <<"a", "p", "p", "r", "o", "a", "c", "h">>,
           <<"t", "e", "c", "h", "n", "i", "q", "u", "e">>,
           <<"p", "r", "o", "c", "e", "d", "u", "r", "e">>,
           <<"s", "e", "a", "r", "c", "h">>,
           <<"s", "o", "r", "t">>,
           <<"o", "p", "t", "i", "m", "i", "z", "a", "t", "i", "o", "n">>,
           <<"l", "e", "a", "r", "n", "i", "n", "g">>,
           <<"t", "r", "a", "i", "n", "i", "n", "g">>,
           <<"g", "r", "e", "e", "d", "y">>,
           <<"h", "e", "u", "r", "i", "s", "t", "i", "c">>,
           <<"r", "e", "c", "u", "r", "s", "i", "v", "e">>,
           <<"i", "t", "e", "r", "a", "t", "i", "v", "e">>,
           <<"d", "y", "n", "a", "m", "i", "c">> >> >>,
       <<"Framework",
        << <<"f", "r", "a", "m", "e", "w", "o", "r", "k">>,
           <<"l", "i", "b", "r", "a", "r", "y">>,
           <<"p", "l", "a", "t", "f", "o", "r", "m">>,
           <<"t", "o", "o", "l", "k", "i", "t">>,
           <<"s", "y", "s", "t", "e", "m">>,
           <<"n", "e", "t", "w", "o", "r", "k">>,
           <<"m", "o", "d", "e", "l">>,
           <<"a", "r", "c", "h", "i", "t", "e", "c", "t", "u", "r", "e">>,
           <<"n", "e", "u", "r", "a", "l">>,
           <<"d", "e", "e", "p">> >> >>,
       <<"Technique",
        << <<"t", "e", "c", "h", "n", "i", "q", "u", "e">>,
           <<"s", "t", "r", "a", "t", "e", "g", "y">>,
           <<"m", "e", "c", "h", "a", "n", "i", "s", "m">>,
           <<"p", "r", "o", "c", "e", "s", "s">>,
           <<"p", "r", "o", "c", "e", "d", "u", "r", "e">>,
           <<"p", "r", "u", "n", "i", "n", "g">>,
           <<"c", "o", "m", "p", "r", "e", "s", "s", "i", "o", "n">>,
           <<"e", "m", "b", "e", "d", "d", "i", "n", "g">>,
           <<"r", "e", "p", "r", "e", "s", "e", "n", "t", "a", "t", "i", "o", "n">> >> >>,
       <<"Task",
        << <<"t", "a", "s", "k">>,
           <<"p", "r", "o", "b", "l", "e", "m">>,
           <<"a", "p", "p", "l", "i", "c", "a", "t", "i", "o", "n">>,
           <<"s", "c", "e", "n", "a", "r", "i", "o">>,
           <<"c", "h", "a", "l", "l", "e", "n", "g", "e">>,
           <<"p", "r", "e", "d", "i", "c", "t", "i", "o", "n">>,
           <<"c", "l", "a", "s", "s", "i", "f", "i", "c", "a", "t", "i", "o", "n">>,
           <<"r", "e", "a", "s", "o", "n", "i", "n", "g">>,
           <<"a", "n", "a", "l", "y", "s", "i", "s">> >> >>,
       <<"Metric",
        << <<"m", "e", "t", "r", "i", "c">>,
           <<"m", "e", "a", "s", "u", "r", "e">>,
           <<"s", "c", "o", "r", "e">>,
           <<"r", "a", "t", "e">>,
           <<"a", "c", "c", "u", "r", "a", "c", "y">>,
           <<"p", "r", "e", "c", "i", "s", "i", "o", "n">>,
           <<"r", "e", "c", "a", "l", "l">>,
           <<"p", "e", "r", "f", "o", "r", "m", "a", "n", "c", "e">>,
           <<"q", "u", "a", "l", "i", "t", "y">>,
           <<"e", "f", "f", "i", "c", "i", "e", "n", "c", "y">> >> >> >>

\* self.type_patterns of _init_base_structures; the patterns in Chinese are
\* left out, no text over Letters matches them
BuiltinPatterns ==
    << <<"Algorithm",
        << PLetters(<<"G", "r", "a", "p", "h">>, 1),
           PLetters(<<>>, 2),
           PEnds(<<"a", "l", "g", "o", "r", "i", "t", "h", "m">>),
           PEnds(<<"s", "e", "a", "r", "c", "h">>),
           PEnds(<<"n", "e", "t">>),
           PEnds(<<"S", "A", "G", "E">>) >> >>,
       <<"Framework",
        << PEnds(<<"f", "r", "a", "m", "e", "w", "o", "r", "k">>),
           PEnds(<<"n", "e", "t", "w", "o", "r", "k">>),
           PEnds(<<"s", "y", "s", "t", "e", "m">>),
           PEnds(<<"l", "i", "b", "r", "a", "r", "y">>) >> >>,
       <<"Task",
        << PEnds(<<"p", "r", "e", "d", "i", "c", "t", "i", "o", "n">>),
           PEnds(<<"c", "l", "a", "s", "s", "i", "f", "i", "c", "a", "t", "i", "o", "n">>),
           PEnds(<<"a", "n", "a", "l", "y", "s", "i", "s">>),
           PEnds(<<"r", "e", "c", "o", "g", "n", "i", "t", "i", "o", "n">>) >> >>,
       <<"Technique",
        << PEnds(<<"p", "r", "u", "n", "i", "n", "g">>),
           PEnds(<<"c", "o", "m", "p", "r", "e", "s", "s", "i", "o", "n">>),
           PEnds(<<"e", "m", "b", "e", "d", "d", "i", "n", "g">>) >> >> >>

\* self.context_indicators of _init_base_structures
BuiltinContextIndicators ==
    << <<"Algorithm",
        << <<"a", "l", "g", "o", "r", "i", "t", "h", "m">>,
           <<"m", "e", "t", "h", "o", "d">>,
           <<"a", "p", "p", "r", "o", "a", "c", "h">>,
           <<"t", "e", "c", "h", "n", "i", "q", "u", "e">>,
           <<"i", "m", "p", "l", "e", "m", "e", "n", "t", "s">>,
           <<"p", "r", "o", "p", "o", "s", "e", "s">>,
           <<"i", "n", "t", "r", "o", "d", "u", "c", "e", "s">>,
           <<"d", "e", "v", "e", "l", "o", "p", "s">>,
           <<"s", "o", "l", "v", "e", "s">>,
           <<"o", "p", "t", "i", "m", "i", "z", "e", "s">>,
           <<"s", "e", "a", "r", "c", "h", "e", "s">>,
           <<"c", "o", "m", "p", "u", "t", "e", "s">> >> >>,
       <<"Framework",
        << <<"f", "r", "a", "m", "e", "w", "o", "r", "k">>,
           <<"l", "i", "b", "r", "a", "r", "y">>,
           <<"p", "l", "a", "t", "f", "o", "r", "m">>,
           <<"t", "o", "o", "l", "k", "i", "t">>,
           <<"b", "a", "s", "e", "d", " ", "o", "n">>,
           <<"b", "u", "i", "l", "t", " ", "o", "n">>,
           <<"u", "s", "e", "s">>,
           <<"l", "e", "v", "e", "r", "a", "g", "e", "s">>,
           <<"p", "o", "w", "e", "r", "e", "d", " ", "b", "y">>,
           <<"i", "m", "p", "l", "e", "m", "e", "n", "t", "e", "d", " ", "i", "n">> >> >>,
       <<"Task",
        << <<"t", "a", "s", "k">>,
           <<"p", "r", "o", "b", "l", "e", "m">>,
           <<"a", "p", "p", "l", "i", "c", "a", "t", "i", "o", "n">>,
           <<"s", "c", "e", "n", "a", "r", "i", "o">>,
           <<"u", "s", "e", "d", " ", "f", "o", "r">>,
           <<"a", "p", "p", "l", "i", "e", "d", " ", "t", "o">>,
           <<"a", "d", "d", "r", "e", "s", "s", "e", "s">>,
           <<"t", "a", "c", "k", "l", "e", "s">>,
           <<"s", "o", "l", "v", "e", "s">>,
           <<"h", "a", "n", "d", "l", "e", "s">>,
           <<"p", "e", "r", "f", "o", "r", "m", "s">> >> >>,
       <<"Technique",
        << <<"t", "e", "c", "h", "n", "i", "q", "u", "e">>,
           <<"s", "t", "r", "a", "t", "e", "g", "y">>,
           <<"m", "e", "c", "h", "a", "n", "i", "s", "m">>,
           <<"p", "r", "o", "c", "e", "s", "s">>,
           <<"a", "p", "p", "l", "i", "e", "s">>,
           <<"e", "m", "p", "l", "o", "y", "s">>,
           <<"u", "t", "i", "l", "i", "z", "e", "s">>,
           <<"a", "d", "o", "p", "t", "s">> >> >> >>

FullStop == <<".">>

\* \w+ on a token
IsWordToken(token) ==
    token # <<>> /\ \A i \in 1..Len(token) : token[i] \in Letters

RECURSIVE JoinTokens(_)
\* the characters of the text
JoinTokens(tokens) ==
    IF tokens = <<>> THEN <<>>
    ELSE IF Len(tokens) = 1 THEN tokens[1]
    ELSE IF tokens[2] = FullStop THEN tokens[1] \o JoinTokens(Tail(tokens))
    ELSE tokens[1] \o <<" ">> \o JoinTokens(Tail(tokens))

\* 'instance_patterns': the words between (\w+)\s+ and \s+(\w+); the two
\* patterns with a Chinese word match no text over Letters
InstanceConnectors ==
    << <<<<"i", "s">>, <<"a">>>>,
       <<<<"i", "s">>, <<"a", "n">>>>,
       <<<<"i", "s">>, <<"i", "n", "s", "t", "a", "n", "c", "e">>, <<"o", "f">>>> >>

RECURSIVE FindAllPairs(_, _)
\* pattern.findall(text) for (\w+)\s+connector\s+(\w+) with re.IGNORECASE:
\* the matches from left to right, not overlapping
FindAllPairs(tokens, connector) ==
    LET k == Len(connector)
    IN  IF Len(tokens) < k + 2 THEN <<>>
        ELSE IF /\ IsWordToken(tokens[1])
                /\ \A i \in 1..k : Lower(tokens[i + 1]) = connector[i]
                /\ IsWordToken(tokens[k + 2])
             THEN << <<tokens[1], tokens[k + 2]>> >>
                  \o FindAllPairs(SubSeq(tokens, k + 3, Len(tokens)), connector)
        ELSE FindAllPairs(Tail(tokens), connector)

PredicateIsInstanceOf == <<"i", "s", "_", "i", "n", "s", "t", "a", "n", "c", "e", "_", "o", "f">>

PredicateLocatedAt == <<"l", "o", "c", "a", "t", "e", "d", "A", "t">>

\* self.entity_inferer.infer_entity_type(word) of the extractor's inferer
RuleInfer(inferer, word) ==
    InferEntityType(inferer.cache, inferer.inverted, inferer.trie, inferer.patterns,
                    inferer.type_keywords, inferer.type_patterns,
                    inferer.context_indicators, word, <<>>)

RECURSIVE InstanceTriples(_, _)
\* the loop over the matches of one instance pattern; confidences in percent
InstanceTriples(matches, inferer) ==
    IF matches = <<>> THEN <<>>
    ELSE LET subject_type == RuleInfer(inferer, Head(matches)[1])
             object_type == RuleInfer(inferer, Head(matches)[2])
         IN  (IF subject_type.confidence > 500 /\ object_type.confidence > 500
              THEN << Triple(Head(matches)[1], PredicateIsInstanceOf, Head(matches)[2],
                             Min(subject_type.confidence, object_type.confidence) \div 10,
                             "rule_pattern") >>
              ELSE <<>>)
             \o InstanceTriples(Tail(matches), inferer)

RECURSIVE ExtractInstanceRelations(_, _, _)
\* RuleBasedTripleExtractor._extract_instance_relations
ExtractInstanceRelations(connectors, tokens, inferer) ==
    IF connectors = <<>> THEN <<>>
    ELSE InstanceTriples(FindAllPairs(tokens, Head(connectors)), inferer)
         \o ExtractInstanceRelations(Tail(connectors), tokens, inferer)

\* words that the temporal, spatial, DO-DA-F and architecture patterns need,
\* other than Chinese ones
OtherPatternWords ==
    {<<"w", "h", "e", "n">>, <<"r", "e", "s", "u", "l", "t", "s", " ", "i", "n">>, <<"c", "o", "n", "t", "a", "i", "n", "s">>}

\* _extract_temporal_relations, _extract_spatial_relations,
\* _extract_dodaf_relations and _extract_architecture_relations match no
\* text that has none of their words
PlainText(tokens) ==
    \A w \in OtherPatternWords : ~Contains(Lower(JoinTokens(tokens)), w)

RECURSIVE SplitSentences(_, _)
\* re.split(r'[.]', text): the token lists between the full stops
SplitSentences(tokens, current) ==
    IF tokens = <<>> THEN <<current>>
    ELSE IF Head(tokens) = FullStop
         THEN <<current>> \o SplitSentences(Tail(tokens), <<>>)
    ELSE SplitSentences(Tail(tokens), Append(current, Head(tokens)))

\* the token is lower-case, or a capital letter followed by lower-case letters
IsCapitalized(token) ==
    /\ Len(token) >= 2
    /\ token[1] \in Range(UpperLetters)
    /\ \A i \in 2..Len(token) : token[i] \in Range(LowerLetters)

RECURSIVE DistinctInOrder(_, _)
DistinctInOrder(items, acc) ==
    IF items = <<>> THEN acc
    ELSE DistinctInOrder(Tail(items),
             IF Head(items) \in Range(acc) THEN acc ELSE Append(acc, Head(items)))

Reverse(q) == [i \in 1..Len(q) |-> q[Len(q) + 1 - i]]

\* _extract_entities_from_sentence: the matches of [A-Z][a-zA-Z]+ in tokens
\* that are lower-case or capitalised; list(set(...)) puts them in an order
\* that depends on the process's string hashes: here the order of first
\* occurrence or its reverse
ExtractEntitiesFromSentence(sentence, reversed) ==
    LET entities == DistinctInOrder(SelectSeq(sentence, IsCapitalized), <<>>)
    IN  IF reversed THEN Reverse(entities) ELSE entities

\* _infer_relation_between_entities for entities that are no dates: a triple
\* or none, as a sequence
InferRelationBetweenEntities(entity1, entity2, sentence) ==
    LET context_lower == Lower(JoinTokens(sentence))
    IN  IF \E w \in {<<"l", "o", "c", "a", "t", "e", "d">>, <<"a", "t">>} : Contains(context_lower, w)
        THEN << Triple(entity1, PredicateLocatedAt, entity2, 60, "context_inference") >>
        ELSE <<>>

RECURSIVE PairRelations(_, _, _, _)
\* for i, entity1 in enumerate(entities): for entity2 in entities[i+1:]
PairRelations(entities, i, j, sentence) ==
    IF i >= Len(entities) THEN <<>>
    ELSE IF j > Len(entities) THEN PairRelations(entities, i + 1, i + 2, sentence)
    ELSE InferRelationBetweenEntities(entities[i], entities[j], sentence)
         \o PairRelations(entities, i, j + 1, sentence)

RECURSIVE InferRelationsFromSentences(_, _)
\* RuleBasedTripleExtractor._infer_relations_from_entities
InferRelationsFromSentences(sentences, reversed) ==
    IF sentences = <<>> THEN <<>>
    ELSE LET sentence == Head(sentences)
             entities == ExtractEntitiesFromSentence(sentence, reversed)
         IN  (IF Len(JoinTokens(sentence)) < 10 \/ Len(entities) < 2 THEN <<>>
              ELSE PairRelations(entities, 1, 2, sentence))
             \o InferRelationsFromSentences(Tail(sentences), reversed)

\* RuleBasedTripleExtractor.extract_triples on a plain text
RuleExtractTriples(tokens, inferer, reversed) ==
    ExtractInstanceRelations(InstanceConnectors, tokens, inferer)
    \o InferRelationsFromSentences(SplitSentences(tokens, <<>>), reversed)

\* what _calculate_text_complexity measures of the text
TextFeatures(tokens) ==
    LET sentences == SplitSentences(tokens, <<>>)
    IN  [char_count |-> Len(JoinTokens(tokens)),
         sentence_count |->
             Cardinality({i \in 1..Len(sentences) : Len(JoinTokens(sentences[i])) > 5}),
         entity_estimate |->
             Cardinality({i \in 1..Len(tokens) :
                             tokens[i][1] \in Range(UpperLetters)})]

\* subjects, verbs and objects of the sentences of a text
SubjectPhrases ==
    {<<<<"A", "n", "t">>, <<"C", "o", "l", "o", "n", "y">>, <<"O", "p", "t", "i", "m", "i", "z", "a", "t", "i", "o", "n">>>>,
     <<<<"D", "i", "j", "k", "s", "t", "r", "a">>>>}

VerbPhrases ==
    {<<<<"i", "s">>, <<"a", "n">>>>, <<<<"s", "o", "l", "v", "e", "s">>>>}

ObjectPhrases ==
    {<<<<"A", "l", "g", "o", "r", "i", "t", "h", "m">>>>,
     <<<<"T", "r", "a", "v", "e", "l", "i", "n", "g">>, <<"S", "a", "l", "e", "s", "m", "a", "n">>, <<"P", "r", "o", "b", "l", "e", "m">>>>}

Sentences ==
    {subject \o verb \o object \o <<FullStop>> :
        subject \in SubjectPhrases, verb \in VerbPhrases, object \in ObjectPhrases}

RECURSIVE TextsUpTo(_)
\* the texts of at most n sentences
TextsUpTo(n) ==
    IF n = 0 THEN {<<>>}
    ELSE LET shorter == TextsUpTo(n - 1)
         IN  shorter \cup {t \o sentence : t \in shorter, sentence \in Sentences}

SourceTexts == {t \in TextsUpTo(MaxSentences) : t # <<>> /\ PlainText(t)}

\* what the oracle does when a text's rule output is insufficient
RuleTextOracles ==
    {[kind |-> "json_list",
      items |-> << ResponseItem(<<"A", "n", "t", " ", "C", "o", "l", "o", "n", "y", " ", "O", "p", "t", "i", "m", "i", "z", "a", "t", "i", "o", "n">>,
                                <<"s", "o", "l", "v", "e", "s">>,
                                <<"T", "r", "a", "v", "e", "l", "i", "n", "g", " ", "S", "a", "l", "e", "s", "m", "a", "n", " ", "P", "r", "o", "b", "l", "e", "m">>, 90) >>],
     [kind |-> "api_error", items |-> <<>>]}

\* the inferer of the rule extractor: its cache, the shared index, its banks
RuleInferer ==
    [cache |-> verified_entities, inverted |-> inverted, trie |-> trie,
     patterns |-> patterns, type_keywords |-> type_keywords,
     type_patterns |-> type_patterns, context_indicators |-> context_indicators]

\* an EnhancedEntityTypeInferer constructed where the template registry holds
\* no template of its domain: the built-in banks, an empty cache
InferInitBuiltin ==
    /\ verified_entities = [k \in {} |-> None]
    /\ clock = 0
    /\ history = [k \in {} |-> None]
    /\ current_domain = "graph_algorithms"
    /\ type_keywords = BuiltinKeywords
    /\ type_patterns = BuiltinPatterns
    /\ context_indicators = BuiltinContextIndicators
    /\ infLast = NoInfer("init")

RulesInit ==
    /\ source_text \in SourceTexts
    /\ extraction = [text |-> TextFeatures(source_text), rule_triples |-> <<>>]
    /\ hybLast = NoExtract

\* HybridTripleExtractor.extract_triples(source_text), from the rule
\* extraction on
ExtractTextOp(reversed, oracle) ==
    \E rule_triples \in {RuleExtractTriples(source_text, RuleInferer, reversed)},
       text \in {TextFeatures(source_text)} :
        /\ extraction' = [text |-> text, rule_triples |-> rule_triples]
        /\ hybLast' = [op |-> "extract_triples", oracle |-> oracle,
                       result |-> ExtractTriples(rule_triples, text, oracle)]
        /\ UNCHANGED source_text

----------------------------------------------------------------------------
(* DomainTemplateManager.  A template's fields are dicts from entity type  *)
(* to an object of the heap: a list for keywords (patterns and             *)
(* context_indicators are handled by the same statements), an inner dict   *)
(* for entity_types (relation_types likewise), held as the sequence of its *)
(* items.  A dict is a function from its keys to object references.        *)

Fields == {"entity_types", "keywords"}

EmptyDict == [k \in {} |-> 0]

\* DomainTemplate(domain_name=..., ...), the dict fields empty by default
DomainTemplate(entity_types, keywords) ==
    [entity_types |-> entity_types, keywords |-> keywords]

\* dict.copy(): a new dict with the same keys and the same value objects
DictCopy(dict) == [k \in DOMAIN dict |-> dict[k]]

\* dict[key] = ref
DictSet(dict, key, ref) ==
    [k \in DOMAIN dict \cup {key} |-> IF k = key THEN ref ELSE dict[k]]

\* dict.update(other), on dicts of object references
DictUpdateRefs(dict, other) ==
    [k \in DOMAIN dict \cup DOMAIN other |->
        IF k \in DOMAIN other THEN other[k] ELSE dict[k]]

\* what a template holds, with every reference followed
DeepValue(template, objects) ==
    [f \in Fields |-> [k \in DOMAIN template[f] |-> objects[template[f][k]]]]

\* DomainTemplateManager.get_template: self.templates.get(domain_name)
TemplateGet(registry, domain_name) ==
    IF domain_name \in DOMAIN registry THEN Some(registry[domain_name]) ELSE Nothing

\* the names of the template files in templates_dir
TemplateFiles == {"base", "other"}

\* DomainTemplateManager.load_template: None when the file does not exist
LoadTemplate(domain_name) ==
    IF domain_name \notin TemplateFiles THEN "None" ELSE "template"

\* create_template_from_existing: the new template, its dict fields copies
\* of the source's
CopiedTemplate(source_template) ==
    DomainTemplate(DictCopy(source_template.entity_types),
                   DictCopy(source_template.keywords))

RECURSIVE MergeKeywords(_, _, _, _)
\* the loop "for entity_type, keywords in template.keywords.items()" of
\* merge_templates over the types still to do: extend and deduplicate the
\* merged list into a new list, or store a copy of the template's list
MergeKeywords(todo, keywords, merged, objects) ==
    IF todo = {} THEN [keywords |-> merged, heap |-> objects]
    ELSE LET entity_type == CHOOSE t \in todo : TRUE
             added == objects[keywords[entity_type]]
             fresh == IF entity_type \in DOMAIN merged
                      THEN DistinctInOrder(objects[merged[entity_type]] \o added, <<>>)
                      ELSE added
         IN  MergeKeywords(todo \ {entity_type}, keywords,
                           DictSet(merged, entity_type, Len(objects) + 1),
                           Append(objects, fresh))

RECURSIVE MergeLoop(_, _, _, _)
\* the loop "for template_name in template_names" of merge_templates
MergeLoop(template_names, registry, merged, objects) ==
    IF template_names = <<>> THEN [template |-> merged, heap |-> objects]
    ELSE LET template == TemplateGet(registry, Head(template_names))
         IN  IF template = Nothing                     \* if not template: continue
             THEN MergeLoop(Tail(template_names), registry, merged, objects)
             ELSE LET kw == MergeKeywords(DOMAIN template[1].keywords,
                                          template[1].keywords, merged.keywords, objects)
                  IN  MergeLoop(Tail(template_names), registry,
                                DomainTemplate(
                                    DictUpdateRefs(merged.entity_types,
                                                   template[1].entity_types),
                                    kw.keywords),
                                kw.heap)

\* identifiers given to the registry, "missing" being registered nowhere
TemplateIds == {"base", "other", "missing"}

TemplateIdLists ==
    {<<a>> : a \in TemplateIds} \cup {<<"base", b>> : b \in TemplateIds}

EntityTypeNames == {"T1", "T2"}

ItemNames == {"y"}

NoRegistryOp ==
    [op |-> "init", ids |-> <<>>, outcome |-> "none", owner |-> "none", name |-> "none",
     before |-> <<>>]

\* what every registered and every held template holds
Snapshot(registry, holder, objects) ==
    [registry |-> [n \in DOMAIN registry |-> DeepValue(registry[n], objects)],
     held |-> [n \in DOMAIN holder |-> DeepValue(holder[n].template, objects)]]

\* the registry as loaded from templates_dir: two templates, each list and
\* inner dict an object of its own
RegistryInit ==
    /\ heap = << <<"x">>, <<"x">>, <<"y">>, <<"x">> >>
    /\ templates =
           [n \in TemplateFiles |->
               IF n = "base"
               THEN DomainTemplate([k \in {"T1"} |-> 1], [k \in {"T1"} |-> 2])
               ELSE DomainTemplate([k \in {"T2"} |-> 3], [k \in {"T1"} |-> 4])]
    /\ held = [n \in {} |-> 0]
    /\ regOps = 0
    /\ regLast = NoRegistryOp

RegistryOpDone(op, ids, outcome, owner, name) ==
    /\ regOps < MaxRegistryOps
    /\ regOps' = regOps + 1
    /\ regLast' = [op |-> op, ids |-> ids, outcome |-> outcome, owner |-> owner,
                   name |-> name, before |-> Snapshot(templates, held, heap)]

\* DomainTemplateManager.get_template
GetTemplateOp(domain_name) ==
    /\ RegistryOpDone("get_template", <<domain_name>>,
                      IF TemplateGet(templates, domain_name) = Nothing
                      THEN "None" ELSE "template", "none", "none")
    /\ UNCHANGED <<templates, held, heap>>

\* DomainTemplateManager.load_template
LoadTemplateOp(domain_name) ==
    /\ RegistryOpDone("load_template", <<domain_name>>, LoadTemplate(domain_name),
                      "none", "none")
    /\ UNCHANGED <<templates, held, heap>>

\* DomainTemplateManager.create_template_from_existing; the caller holds the
\* new template as "derived"
CreateTemplateFromExistingOp(source_domain) ==
    LET source_template == TemplateGet(templates, source_domain)
    IN  IF source_template = Nothing
        THEN /\ RegistryOpDone("create_template_from_existing", <<source_domain>>,
                               "ValueError", "none", "none")
             /\ UNCHANGED <<templates, held, heap>>
        ELSE /\ RegistryOpDone("create_template_from_existing", <<source_domain>>,
                               "template", "held", "derived")
             /\ held' = [n \in DOMAIN held \cup {"derived"} |->
                            IF n = "derived"
                            THEN [template |-> CopiedTemplate(source_template[1]),
                                  derived_from |-> source_domain]
                            ELSE held[n]]
             /\ UNCHANGED <<templates, heap>>

\* DomainTemplateManager.merge_templates; the caller holds the merged
\* template as "merged"
MergeTemplatesOp(template_names) ==
    LET result == MergeLoop(template_names, templates,
                            DomainTemplate(EmptyDict, EmptyDict), heap)
    IN  /\ RegistryOpDone("merge_templates", template_names, "template", "held", "merged")
        /\ held' = [n \in DOMAIN held \cup {"merged"} |->
                       IF n = "merged"
                       THEN [template |-> result.template, derived_from |-> "none"]
                       ELSE held[n]]
        /\ heap' = result.heap
        /\ UNCHANGED templates

\* the template that owner ("registry" or "held") has under the name
OwnedTemplate(owner, name) ==
    IF owner = "registry" THEN templates[name] ELSE held[name].template

Owned(owner) == IF owner = "registry" THEN DOMAIN templates ELSE DOMAIN held

\* template.keywords[entity_type].append(item), or
\* template.entity_types[entity_type][item] = ...: the object changes in place
ModifyInPlaceOp(owner, name, field, entity_type, item) ==
    /\ name \in Owned(owner)
    /\ entity_type \in DOMAIN OwnedTemplate(owner, name)[field]
    /\ RegistryOpDone("modify_in_place", <<>>, "none", owner, name)
    /\ heap' = [heap EXCEPT ![OwnedTemplate(owner, name)[field][entity_type]] =
                                Append(@, item)]
    /\ UNCHANGED <<templates, held>>

\* template.keywords[entity_type] = [item], or
\* template.entity_types[entity_type] = {item: ...}: a new object is stored
AssignEntryOp(owner, name, field, entity_type, item) ==
    /\ name \in Owned(owner)
    /\ RegistryOpDone("assign_entry", <<>>, "none", owner, name)
    /\ heap' = Append(heap, <<item>>)
    /\ LET template == OwnedTemplate(owner, name)
           changed == [template EXCEPT
                          ![field] = DictSet(@, entity_type, Len(heap) + 1)]
       IN  IF owner = "registry"
           THEN /\ templates' = [templates EXCEPT ![name] = changed]
                /\ UNCHANGED held
           ELSE /\ held' = [held EXCEPT ![name].template = changed]
                /\ UNCHANGED templates

----------------------------------------------------------------------------
(* EntityTypeInferer of pipeline/entity_type_inferer.py: entity types from *)
(* a list of triples, by weighted votes.  Entity names, type names and     *)
(* predicates are strings (sequences of characters).                       *)

\* self.known_types
known_types ==
    {<<"P", "a", "r", "a", "d", "i", "g", "m">>,
     <<"A", "l", "g", "o", "r", "i", "t", "h", "m">>,
     <<"T", "e", "c", "h", "n", "i", "q", "u", "e">>,
     <<"F", "r", "a", "m", "e", "w", "o", "r", "k">>,
     <<"T", "a", "s", "k">>,
     <<"M", "e", "t", "r", "i", "c">>,
     <<"B", "o", "o", "l", "e", "a", "n">>}

\* self.type_keywords, in the order of the dict
TypeKeywordBank ==
    << <<<<"A", "l", "g", "o", "r", "i", "t", "h", "m">>,
        << <<"a", "l", "g", "o", "r", "i", "t", "h", "m">>,
           <<"s", "e", "a", "r", "c", "h">>,
           <<"l", "e", "a", "r", "n", "i", "n", "g">>,
           <<"n", "e", "u", "r", "a", "l">>,
           <<"t", "r", "e", "e">>,
           <<"w", "a", "l", "k">>,
           <<"r", "a", "n", "k", "i", "n", "g">>,
           <<"m", "i", "n", "e", "r", "v", "a">>,
           <<"g", "r", "a", "i", "l">>,
           <<"g", "n", "n", "_", "r", "l">>,
           <<"n", "e", "u", "r", "a", "l", "p">>,
           <<"a", "n", "t", "_", "c", "o", "l", "o", "n", "y">>,
           <<"g", "r", "e", "e", "d", "y">>,
           <<"m", "o", "n", "t", "e", "_", "c", "a", "r", "l", "o">> >> >>,
       <<<<"P", "a", "r", "a", "d", "i", "g", "m">>,
        << <<"p", "a", "r", "a", "d", "i", "g", "m">>,
           <<"d", "e", "c", "i", "s", "i", "o", "n">>,
           <<"l", "e", "a", "r", "n", "i", "n", "g">>,
           <<"i", "n", "f", "e", "r", "e", "n", "c", "e">>,
           <<"m", "e", "c", "h", "a", "n", "i", "s", "m">>,
           <<"s", "e", "a", "r", "c", "h">>,
           <<"s", "e", "q", "u", "e", "n", "t", "i", "a", "l", "_", "d", "e", "c", "i", "s", "i", "o", "n">>,
           <<"d", "i", "v", "i", "d", "e", "_", "a", "n", "d", "_", "c", "o", "n", "q", "u", "e", "r">>,
           <<"p", "r", "o", "b", "a", "b", "i", "l", "i", "s", "t", "i", "c", "_", "i", "n", "f", "e", "r", "e", "n", "c", "e">>,
           <<"r", "e", "i", "n", "f", "o", "r", "c", "e", "m", "e", "n", "t", "_", "l", "e", "a", "r", "n", "i", "n", "g">>,
           <<"a", "t", "t", "e", "n", "t", "i", "o", "n", "_", "m", "e", "c", "h", "a", "n", "i", "s", "m">>,
           <<"r", "e", "p", "r", "e", "s", "e", "n", "t", "a", "t", "i", "o", "n", "_", "l", "e", "a", "r", "n", "i", "n", "g">>,
           <<"h", "e", "u", "r", "i", "s", "t", "i", "c", "_", "s", "e", "a", "r", "c", "h">>,
           <<"p", "l", "a", "n", "n", "i", "n", "g">> >> >>,
       <<<<"T", "e", "c", "h", "n", "i", "q", "u", "e">>,
        << <<"t", "e", "c", "h", "n", "i", "q", "u", "e">>,
           <<"p", "r", "u", "n", "i", "n", "g">>,
           <<"c", "o", "m", "p", "r", "e", "s", "s", "i", "o", "n">>,
           <<"c", "o", "m", "p", "u", "t", "i", "n", "g">>,
           <<"b", "o", "t", "t", "l", "e", "n", "e", "c", "k">>,
           <<"i", "n", "f", "o", "r", "m", "a", "t", "i", "o", "n", "_", "b", "o", "t", "t", "l", "e", "n", "e", "c", "k">>,
           <<"e", "m", "b", "e", "d", "d", "i", "n", "g", "_", "c", "o", "m", "p", "r", "e", "s", "s", "i", "o", "n">>,
           <<"a", "p", "p", "r", "o", "x", "i", "m", "a", "t", "e", "_", "c", "o", "m", "p", "u", "t", "i", "n", "g">>,
           <<"i", "n", "c", "r", "e", "m", "e", "n", "t", "a", "l", "_", "c", "o", "m", "p", "u", "t", "i", "n", "g">>,
           <<"r", "l", "_", "a", "g", "e", "n", "t", "_", "p", "r", "u", "n", "i", "n", "g", "_", "s", "t", "r", "a", "t", "e", "g", "y">> >> >>,
       <<<<"F", "r", "a", "m", "e", "w", "o", "r", "k">>,
        << <<"f", "r", "a", "m", "e", "w", "o", "r", "k">>,
           <<"n", "e", "u", "r", "a", "l">>,
           <<"n", "e", "t", "w", "o", "r", "k">>,
           <<"r", "e", "i", "n", "f", "o", "r", "c", "e", "m", "e", "n", "t">>,
           <<"c", "o", "n", "t", "r", "a", "s", "t", "i", "v", "e">>,
           <<"g", "r", "a", "p", "h", "_", "n", "e", "u", "r", "a", "l", "_", "n", "e", "t", "w", "o", "r", "k">>,
           <<"g", "r", "a", "p", "h", "_", "r", "e", "i", "n", "f", "o", "r", "c", "e", "m", "e", "n", "t", "_", "l", "e", "a", "r", "n", "i", "n", "g">>,
           <<"g", "r", "a", "p", "h", "_", "c", "o", "n", "t", "r", "a", "s", "t", "i", "v", "e", "_", "l", "e", "a", "r", "n", "i", "n", "g">> >> >>,
       <<<<"T", "a", "s", "k">>,
        << <<"t", "a", "s", "k">>,
           <<"r", "e", "a", "s", "o", "n", "i", "n", "g">>,
           <<"p", "r", "e", "d", "i", "c", "t", "i", "o", "n">>,
           <<"c", "l", "a", "s", "s", "i", "f", "i", "c", "a", "t", "i", "o", "n">>,
           <<"q", "a">>,
           <<"g", "r", "a", "p", "h", "_", "s", "p", "a", "r", "s", "e", "_", "r", "e", "a", "s", "o", "n", "i", "n", "g">>,
           <<"r", "e", "l", "a", "t", "i", "o", "n", "_", "p", "r", "e", "d", "i", "c", "t", "i", "o", "n">>,
           <<"g", "a", "m", "e", "_", "a", "i", "_", "r", "e", "a", "s", "o", "n", "i", "n", "g">>,
           <<"n", "o", "d", "e", "_", "c", "l", "a", "s", "s", "i", "f", "i", "c", "a", "t", "i", "o", "n">>,
           <<"c", "o", "m", "p", "l", "e", "x", "_", "k", "g", "_", "q", "a">>,
           <<"p", "r", "e", "s", "a", "m", "p", "l", "i", "n", "g", "_", "l", "a", "r", "g", "c", "k", "g">> >> >>,
       <<<<"M", "e", "t", "r", "i", "c">>,
        << <<"m", "e", "t", "r", "i", "c">>,
           <<"r", "e", "d", "u", "c", "t", "i", "o", "n">>,
           <<"a", "c", "c", "u", "r", "a", "c", "y">>,
           <<"c", "o", "n", "f", "i", "d", "e", "n", "c", "e">>,
           <<"p", "a", "t", "h">>,
           <<"c", "o", "s", "t">>,
           <<"e", "x", "p", "l", "a", "i", "n", "a", "b", "i", "l", "i", "t", "y">>,
           <<"e", "x", "p", "l", "o", "r", "a", "t", "i", "o", "n">>,
           <<"r", "e", "w", "a", "r", "d">>,
           <<"q", "u", "a", "l", "i", "t", "y">>,
           <<"c", "o", "m", "p", "u", "t", "e", "_", "r", "e", "d", "u", "c", "t", "i", "o", "n">>,
           <<"a", "c", "c", "u", "r", "a", "c", "y", "_", "r", "e", "t", "e", "n", "t", "i", "o", "n">>,
           <<"r", "e", "l", "a", "t", "i", "o", "n", "_", "c", "o", "n", "f", "i", "d", "e", "n", "c", "e">> >> >> >>

TypeAlgorithm == <<"A", "l", "g", "o", "r", "i", "t", "h", "m">>

TypeParadigm == <<"P", "a", "r", "a", "d", "i", "g", "m">>

TypeTechnique == <<"T", "e", "c", "h", "n", "i", "q", "u", "e">>

TypeFramework == <<"F", "r", "a", "m", "e", "w", "o", "r", "k">>

TypeTask == <<"T", "a", "s", "k">>

TypeMetric == <<"M", "e", "t", "r", "i", "c">>

TypeUnknown == <<"U", "n", "k", "n", "o", "w", "n">>

PredIsInstanceOf == <<"i", "s", "_", "i", "n", "s", "t", "a", "n", "c", "e", "_", "o", "f">>

PredUsesParadigm == <<"u", "s", "e", "s", "_", "p", "a", "r", "a", "d", "i", "g", "m">>

PredImplements == <<"i", "m", "p", "l", "e", "m", "e", "n", "t", "s">>

PredBuildsOn == <<"b", "u", "i", "l", "d", "s", "_", "o", "n">>

PredHasAlgorithm == <<"h", "a", "s", "_", "a", "l", "g", "o", "r", "i", "t", "h", "m">>

PredTechniqueSubject == {<<"r", "e", "d", "u", "c", "e", "s", "_", "c", "o", "m", "p", "u", "t", "a", "t", "i", "o", "n", "_", "b", "y">>,
                         <<"m", "a", "i", "n", "t", "a", "i", "n", "s", "_", "a", "c", "c", "u", "r", "a", "c", "y">>}

PredMetricObject == {<<"h", "a", "s", "_", "a", "d", "v", "a", "n", "t", "a", "g", "e">>, <<"h", "a", "s", "_", "c", "h", "a", "l", "l", "e", "n", "g", "e">>}

\* weights of the three rounds of votes
DeclaredWeight == 10

NameWeight == 5

StrongPatternWeight == 3

WeakPatternWeight == 2

Digits == {"0", "1", "2", "3", "4", "5", "6", "7", "8", "9"}

RECURSIVE WordCount(_, _)
\* len(value.split()): the number of maximal runs of non-space characters
WordCount(s, inWord) ==
    IF s = <<>> THEN 0
    ELSE IF IsSpace(Head(s)) THEN WordCount(Tail(s), FALSE)
    ELSE (IF inWord THEN 0 ELSE 1) + WordCount(Tail(s), TRUE)

\* EntityTypeInferer._is_literal_value, on a string
IsLiteralValue(value) ==
    \/ Contains(value, <<"%">>)
    \/ Lower(value) \in {<<"t", "r", "u", "e">>, <<"f", "a", "l", "s", "e">>}
    \/ LET stripped == SelectSeq(value, LAMBDA c : c \notin {".", "-"})
       IN  stripped # <<>> /\ \A i \in 1..Len(stripped) : stripped[i] \in Digits
    \/ WordCount(value, FALSE) > 3

RECURSIVE KeywordLengthSum(_, _)
\* score += len(keyword) for every keyword found in the name
KeywordLengthSum(keywords, name_lower) ==
    IF keywords = <<>> THEN 0
    ELSE (IF Contains(name_lower, Head(keywords)) THEN Len(Head(keywords)) ELSE 0)
         + KeywordLengthSum(Tail(keywords), name_lower)

\* the scores dict of _infer_type_from_name, in the order of type_keywords
NameScores(entity_name) ==
    [i \in 1..Len(TypeKeywordBank) |->
        <<TypeKeywordBank[i][1],
          KeywordLengthSum(TypeKeywordBank[i][2], Lower(entity_name))>>]

\* EntityTypeInferer._infer_type_from_name: the first type of the largest
\* score, None when that score is 0
InferTypeFromName(entity_name) ==
    LET best == FirstMax(Tail(NameScores(entity_name)), Head(NameScores(entity_name)))
    IN  IF best[2] > 0 THEN Some(best[1]) ELSE Nothing

\* entity_type_votes[entity][type_name] += weight
Vote(votes, entity, type_name, weight) ==
    [e \in DOMAIN votes \cup {entity} |->
        IF e = entity
        THEN AddScore(IF e \in DOMAIN votes THEN votes[e] ELSE <<>>, type_name, weight)
        ELSE votes[e]]

RECURSIVE DeclaredVotes(_, _)
\* the first round: is_instance_of triples whose object is a known type
DeclaredVotes(todo, votes) ==
    IF todo = <<>> THEN votes
    ELSE LET triple == Head(todo)
         IN  DeclaredVotes(Tail(todo),
                 IF /\ Lower(triple.predicate) = PredIsInstanceOf
                    /\ triple.object \in known_types
                 THEN Vote(votes, triple.subject, triple.object, DeclaredWeight)
                 ELSE votes)

\* all_entities: every subject, and every object that is not a literal
AllEntities(list) ==
    {list[i].subject : i \in 1..Len(list)}
    \cup {list[i].object : i \in {j \in 1..Len(list) : ~IsLiteralValue(list[j].object)}}

RECURSIVE NameVotes(_, _)
\* the second round, over the entities still to visit
NameVotes(todo, votes) ==
    IF todo = {} THEN votes
    ELSE LET entity == CHOOSE e \in todo : TRUE
             inferred_type == InferTypeFromName(entity)
         IN  NameVotes(todo \ {entity},
                 IF inferred_type # Nothing
                 THEN Vote(votes, entity, inferred_type[1], NameWeight)
                 ELSE votes)

\* the votes one triple adds in the third round
PatternVote(votes, triple) ==
    LET predicate == Lower(triple.predicate)
        subject == triple.subject
        obj == triple.object
    IN  IF predicate = PredUsesParadigm /\ ~IsLiteralValue(obj)
        THEN LET v == Vote(votes, subject, TypeAlgorithm, StrongPatternWeight)
             IN  IF obj \in known_types
                 THEN Vote(v, obj, TypeParadigm, StrongPatternWeight) ELSE v
        ELSE IF predicate = PredImplements
        THEN Vote(Vote(votes, subject, TypeTechnique, StrongPatternWeight),
                  obj, TypeAlgorithm, WeakPatternWeight)
        ELSE IF predicate = PredBuildsOn
        THEN Vote(votes, obj, TypeFramework, StrongPatternWeight)
        ELSE IF predicate = PredHasAlgorithm
        THEN Vote(Vote(votes, subject, TypeTask, StrongPatternWeight),
                  obj, TypeAlgorithm, WeakPatternWeight)
        ELSE IF predicate \in PredTechniqueSubject
        THEN Vote(votes, subject, TypeTechnique, WeakPatternWeight)
        ELSE IF predicate \in PredMetricObject
        THEN Vote(votes, obj, TypeMetric, WeakPatternWeight)
        ELSE votes

RECURSIVE PatternVotes(_, _)
\* the third round
PatternVotes(todo, votes) ==
    IF todo = <<>> THEN votes
    ELSE PatternVotes(Tail(todo), PatternVote(votes, Head(todo)))

\* entity_type_votes after the three rounds
EntityTypeVotes(list) ==
    PatternVotes(list,
        NameVotes(AllEntities(list),
            DeclaredVotes(list, [e \in {} |-> <<>>])))

\* votes.most_common(1)[0][0]: the first type of the largest count
MostCommon(counter) == FirstMax(Tail(counter), Head(counter))[1]

\* EntityTypeInferer.infer_entity_types_from_triples
InferEntityTypesFromTriples(list) ==
    LET entity_type_votes == EntityTypeVotes(list)
    IN  [entity \in DOMAIN entity_type_votes \cup AllEntities(list) |->
            IF entity \in DOMAIN entity_type_votes
            THEN MostCommon(entity_type_votes[entity])
            ELSE TypeUnknown]

\* the triples given to the inferer
TripleSubjects == {<<"p", "r", "u", "n", "i", "n", "g">>, <<"X">>}

\* the objects each predicate is given with
TripleObjects(predicate) ==
    IF predicate = PredIsInstanceOf THEN {TypeAlgorithm, TypeParadigm}
    ELSE IF predicate = PredImplements THEN {<<"X">>}
    ELSE {TypeParadigm, <<"5", "%">>}

TriplePredicates == {PredIsInstanceOf, PredImplements, PredUsesParadigm}

InputTriples ==
    {[subject |-> s, predicate |-> po[1], object |-> po[2]] :
        s \in TripleSubjects,
        po \in UNION {{<<p, o>> : o \in TripleObjects(p)} : p \in TriplePredicates}}

NoTypes == [op |-> "init", final_types |-> [e \in {} |-> <<>>]]

TypesInit ==
    /\ triples = <<>>
    /\ typLast = NoTypes

\* the caller appends a triple to the list it will pass
AddTripleOp(triple) ==
    /\ Len(triples) < MaxTriples
    /\ triples' = Append(triples, triple)
    /\ typLast' = NoTypes

\* EntityTypeInferer.infer_entity_types_from_triples on the list
InferTypesOp ==
    /\ typLast' = [op |-> "infer_entity_types_from_triples",
                   final_types |-> InferEntityTypesFromTriples(triples)]
    /\ UNCHANGED triples

----------------------------------------------------------------------------
(* MultiLevelIndex.batch_update, save_indexes and load_indexes.  The files  *)
(* of index_dir are the fields of disk.                                     *)

\* dict.get(key, default) on an optional key
GetOr(opt, default) == IF opt = Nothing THEN default ELSE opt[1]

\* one element of the updates list: a dict whose keys confidence and source
\* are optional
Update(action, term, entity_type, confidence, source) ==
    [action |-> action, term |-> term, entity_type |-> entity_type,
     confidence |-> confidence, source |-> source]

RECURSIVE ApplyUpdates(_, _)
\* the loop of batch_update; ix = <<inverted, trie, total_terms>>
ApplyUpdates(updates, ix) ==
    IF updates = <<>> THEN ix
    ELSE LET update == Head(updates)
             confidence == GetOr(update.confidence, 80)
             source == GetOr(update.source, "learned")
         IN  ApplyUpdates(Tail(updates),
                 IF update.action = "add"
                 THEN <<InvertedAdd(ix[1], update.term, update.entity_type, confidence, source),
                        TrieInsert(ix[2], update.term, update.entity_type, confidence, source),
                        ix[3] + 1>>
                 ELSE ix)

\* MultiLevelIndex.batch_update
BatchUpdate(updates) ==
    /\ ops < MaxOps
    /\ \E ix \in {ApplyUpdates(updates, <<inverted, trie, stats.total_terms>>)} :
           /\ inverted' = ix[1]
           /\ trie' = ix[2]
           /\ stats' = [stats EXCEPT !.total_terms = ix[3]]
    /\ last' = NoSearch("batch_update")
    /\ ops' = ops + 1
    /\ UNCHANGED <<patterns, built>>

\* MultiLevelIndex._serialize_trie
SerializeTrie(tr) == [note |-> "Trie serialization simplified"]

NoFiles ==
    [exists |-> FALSE, inverted_index |-> <<>>, trie_index |-> SerializeTrie(EmptyTrie),
     pattern_index |-> <<>>, stats |-> [total_terms |-> 0, total_patterns |-> 0]]

StoreInit ==
    /\ disk = NoFiles
    /\ origin = [inverted |-> <<>>, trie |-> EmptyTrie, patterns |-> <<>>]

\* MultiLevelIndex.save_indexes: the inverted index is pickled, the patterns
\* and the statistics are written as JSON (a tuple becomes a list, which is
\* the same sequence here), the trie as what _serialize_trie returns
SaveIndexes ==
    /\ disk' = [exists |-> TRUE, inverted_index |-> inverted,
                trie_index |-> SerializeTrie(trie),
                pattern_index |-> patterns, stats |-> stats]
    /\ origin' = [inverted |-> inverted, trie |-> trie, patterns |-> patterns]
    /\ last' = NoSearch("save_indexes")
    /\ UNCHANGED <<inverted, trie, patterns, stats, built, ops>>

\* MultiLevelIndex.load_indexes, called on this index or (fresh) on a newly
\* constructed MultiLevelIndex over the same index_dir; no statement of it
\* reads trie_index.json
LoadIndexes(fresh) ==
    /\ inverted' = IF disk.exists THEN disk.inverted_index
                   ELSE IF fresh THEN <<>> ELSE inverted
    /\ patterns' = IF disk.exists THEN disk.pattern_index
                   ELSE IF fresh THEN <<>> ELSE patterns
    /\ stats' = IF disk.exists THEN disk.stats
                ELSE IF fresh THEN [total_terms |-> 0, total_patterns |-> 0] ELSE stats
    /\ trie' = IF fresh THEN EmptyTrie ELSE trie
    /\ last' = NoSearch(IF fresh THEN "load_indexes_fresh" ELSE "load_indexes")
    /\ UNCHANGED <<built, ops, disk, origin>>

StoreTerms == {<<"a">>, <<"A">>, <<"a", "b">>}

UpdateItems ==
    {Update("add", <<"a">>, "T1", Nothing, Nothing),
     Update("add", <<"a">>, "T2", Some(50), Some("learned")),
     Update("remove", <<"a">>, "T1", Nothing, Nothing)}

UpdateLists == {<<u>> : u \in UpdateItems} \cup {<<u, v>> : u \in UpdateItems, v \in {Update("add", <<"a">>, "T1", Nothing, Nothing)}}

----------------------------------------------------------------------------
(* Specifications. *)

\* Spec: the multi-level index alone
Init == IndexInit /\ InferInit /\ DetectIdle /\ HybridIdle /\ RegistryInit /\ TypesInit /\ StoreInit

Next ==
    \/ \E dv \in DomainVocabularies : BuildIndexes(dv) /\ UNCHANGED <<infVars, detVars, hybVars, regVars, typVars, stoVars>>
    \/ \E t \in LearnedTerms, ty \in Types, c \in LearnedConfidences :
           AddLearnedTerm(t, ty, c, "learned") /\ UNCHANGED <<infVars, detVars, hybVars, regVars, typVars, stoVars>>
    \/ \E q \in Queries, k \in 1..MaxTopK : SearchOp(q, k) /\ UNCHANGED <<infVars, detVars, hybVars, regVars, typVars, stoVars>>
    \/ \E q \in Queries, k \in 1..MaxTopK :
           SearchPrefixOp(q, k) /\ UNCHANGED <<infVars, detVars, hybVars, regVars, typVars, stoVars>>

Spec == Init /\ [][Next]_vars

\* the global multi_level_index as the inferer finds it: empty, or built
IndexBuiltFrom(dv) ==
    LET ix == BuildDomains(<<<<>>, EmptyTrie, <<>>>>, dv)
    IN  /\ inverted = ix[1]
        /\ trie = ix[2]
        /\ patterns = ix[3]
        /\ stats = [total_terms |-> CountTerms(dv), total_patterns |-> CountPatterns(dv)]
        /\ built = KeywordPairs(dv)
        /\ last = NoSearch("build_indexes")
        /\ ops = 0

\* SpecInfer: the cache and the layered inferer over a fixed index
InitInfer == (IndexInit \/ IndexBuiltFrom(<<Vocab1>>)) /\ InferInit /\ DetectIdle /\ HybridIdle /\ RegistryInit /\ TypesInit /\ StoreInit

NextInfer ==
    \/ \E n \in CachedNames, r \in RecordInputs :
           RecordOp(n, r[1], r[2], r[3]) /\ UNCHANGED <<idxVars, detVars, hybVars, regVars, typVars, stoVars>>
    \/ \E d \in Domains : SwitchDomain(d) /\ UNCHANGED <<idxVars, detVars, hybVars, regVars, typVars, stoVars>>
    \/ \E n \in EntityNames, c \in Contexts : InferOp(n, c) /\ UNCHANGED <<idxVars, detVars, hybVars, regVars, typVars, stoVars>>

SpecInfer == InitInfer /\ [][NextInfer]_vars

\* SpecReview: the cache under validation feedback and imported reviews
InitReview == IndexInit /\ InferInit /\ DetectIdle /\ HybridIdle /\ RegistryInit /\ TypesInit /\ StoreInit

NextReview ==
    \/ \E n \in CachedNames, r \in RecordInputs :
           RecordOp(n, r[1], r[2], r[3]) /\ UNCHANGED <<idxVars, detVars, hybVars, regVars, typVars, stoVars>>
    \/ \E items \in ReviewFiles :
           ImportReviewedEntities(items) /\ UNCHANGED <<idxVars, detVars, hybVars, regVars, typVars, stoVars>>
    \/ \E n \in CachedNames :
           InferOp(n, <<>>) /\ UNCHANGED <<idxVars, detVars, hybVars, regVars, typVars, stoVars>>

SpecReview == InitReview /\ [][NextReview]_vars

\* SpecDetect: the schema detector on one document
InitDetect == IndexInit /\ InferInit /\ DetectInit /\ HybridIdle /\ RegistryInit /\ TypesInit /\ StoreInit

NextDetect ==
    \E use_llm \in BOOLEAN, oracle \in OracleOutcomes :
        DetectOp(use_llm, oracle) /\ UNCHANGED <<idxVars, infVars, hybVars, regVars, typVars, stoVars>>

SpecDetect == InitDetect /\ [][NextDetect]_vars

\* SpecBuild: build_knowledge_graph on one document, the oracle answering
\* its two detections independently
InitBuild == IndexInit /\ InferInit /\ DetectInit /\ HybridIdle /\ RegistryInit /\ TypesInit /\ StoreInit

NextBuild ==
    \E oracle \in BuildOracles, second_oracle \in BuildOracles :
        /\ BuildKnowledgeGraphOp(oracle, second_oracle)
        /\ UNCHANGED <<idxVars, infVars, hybVars, regVars, typVars, stoVars>>

SpecBuild == InitBuild /\ [][NextBuild]_vars

\* SpecHybrid: the hybrid extractor on one text and rule output
InitHybrid == IndexInit /\ InferInit /\ DetectIdle /\ HybridInit /\ RegistryInit /\ TypesInit /\ StoreInit

NextHybrid ==
    \E oracle \in ExtractionOracles :
        ExtractOp(oracle) /\ UNCHANGED <<idxVars, infVars, detVars, regVars, typVars, stoVars>>

SpecHybrid == InitHybrid /\ [][NextHybrid]_vars

\* SpecRules: the hybrid extractor on a text, from the rule extraction on
InitRules == IndexInit /\ InferInitBuiltin /\ DetectIdle /\ RulesInit /\ RegistryInit /\ TypesInit /\ StoreInit

NextRules ==
    \E reversed \in BOOLEAN, oracle \in RuleTextOracles :
        ExtractTextOp(reversed, oracle) /\ UNCHANGED <<idxVars, infVars, detVars, regVars, typVars, stoVars>>

SpecRules == InitRules /\ [][NextRules]_vars

\* SpecTypes: the vote-based entity type inferer on a growing list of triples
InitTypes == IndexInit /\ InferInit /\ DetectIdle /\ HybridIdle /\ RegistryInit /\ TypesInit /\ StoreInit

NextTypes ==
    \/ \E triple \in InputTriples :
           AddTripleOp(triple) /\ UNCHANGED <<idxVars, infVars, detVars, hybVars, regVars, stoVars>>
    \/ InferTypesOp /\ UNCHANGED <<idxVars, infVars, detVars, hybVars, regVars, stoVars>>

SpecTypes == InitTypes /\ [][NextTypes]_vars

\* SpecRegistry: the template registry and the templates callers hold
InitRegistry == IndexInit /\ InferInit /\ DetectIdle /\ HybridIdle /\ RegistryInit /\ TypesInit /\ StoreInit

NextRegistry ==
    \/ \E id \in TemplateIds : GetTemplateOp(id) /\ UNCHANGED <<idxVars, infVars, detVars, hybVars, typVars, stoVars>>
    \/ \E id \in TemplateIds : LoadTemplateOp(id) /\ UNCHANGED <<idxVars, infVars, detVars, hybVars, typVars, stoVars>>
    \/ \E id \in TemplateIds :
           CreateTemplateFromExistingOp(id) /\ UNCHANGED <<idxVars, infVars, detVars, hybVars, typVars, stoVars>>
    \/ \E ids \in TemplateIdLists :
           MergeTemplatesOp(ids) /\ UNCHANGED <<idxVars, infVars, detVars, hybVars, typVars, stoVars>>
    \/ \E owner \in {"registry", "held"}, name \in TemplateIds \cup {"derived", "merged"},
          field \in Fields, entity_type \in EntityTypeNames, item \in ItemNames :
           /\ ModifyInPlaceOp(owner, name, field, entity_type, item)
           /\ UNCHANGED <<idxVars, infVars, detVars, hybVars, typVars, stoVars>>
    \/ \E owner \in {"registry", "held"}, name \in TemplateIds \cup {"derived", "merged"},
          field \in Fields, entity_type \in EntityTypeNames, item \in ItemNames :
           /\ AssignEntryOp(owner, name, field, entity_type, item)
           /\ UNCHANGED <<idxVars, infVars, detVars, hybVars, typVars, stoVars>>

SpecRegistry == InitRegistry /\ [][NextRegistry]_vars

\* SpecStore: the index with batch updates, written to disk and read back
InitStore == IndexInit /\ InferInit /\ DetectIdle /\ HybridIdle /\ RegistryInit /\ TypesInit /\ StoreInit

NextStore ==
    \/ \E dv \in DomainVocabularies :
           BuildIndexes(dv) /\ UNCHANGED <<infVars, detVars, hybVars, regVars, typVars, stoVars>>
    \/ \E t \in StoreTerms, ty \in {"T1", "T2"} :
           AddLearnedTerm(t, ty, 50, "learned") /\ UNCHANGED <<infVars, detVars, hybVars, regVars, typVars, stoVars>>
    \/ \E updates \in UpdateLists :
           BatchUpdate(updates) /\ UNCHANGED <<infVars, detVars, hybVars, regVars, typVars, stoVars>>
    \/ SaveIndexes /\ UNCHANGED <<infVars, detVars, hybVars, regVars, typVars>>
    \/ \E fresh \in BOOLEAN :
           LoadIndexes(fresh) /\ UNCHANGED <<infVars, detVars, hybVars, regVars, typVars>>

SpecStore == InitStore /\ [][NextStore]_vars

----------------------------------------------------------------------------
(* Claims about MultiLevelIndex.search (specification Spec). *)

\* the entity types that have an entry in the exact index for the query
ExactTypes(query) == {e.entity_type : e \in Range(InvertedGet(inverted, query))}

\* entity_type is in the result with the exact-match confidence 1.0
ReturnedExact(result, entity_type) ==
    \E i \in 1..Len(result) : result[i] = <<entity_type, 1000>>

\* every returned type that has no exact entry for the query (a hit of the
\* prefix, pattern or partial tier only) comes after entity_type
RankedAboveLowerTiers(result, query, entity_type) ==
    \A j \in 1..Len(result) :
        (result[j][1] # entity_type /\ result[j][1] \notin ExactTypes(query))
            => \E i \in 1..(j - 1) : result[i] = <<entity_type, 1000>>

\* C1 as stated: for every term that is verbatim a keyword of type T and every
\* top_k >= 1, search(term, top_k) returns T with confidence 1.0, ranked above
\* every hit for another type that comes only from the lower tiers.
C1_KeywordAlwaysReturned ==
    last.op = "search" =>
        \A ty \in Types :
            <<last.query, ty>> \in built =>
                /\ ReturnedExact(last.result, ty)
                /\ RankedAboveLowerTiers(last.result, last.query, ty)

\* C1 amended: T is returned with confidence 1.0 whenever at most top_k
\* distinct types have an exact-index entry for the term (the result is cut to
\* top_k types, so a term that is an exact entry of more types loses some of
\* them); in every case a type hit only through the prefix, pattern or partial
\* tier is returned only behind T.
C1_KeywordReturnedWithinTopK ==
    last.op = "search" =>
        \A ty \in Types :
            <<last.query, ty>> \in built =>
                /\ Cardinality(ExactTypes(last.query)) =< last.top_k
                       => ReturnedExact(last.result, ty)
                /\ RankedAboveLowerTiers(last.result, last.query, ty)

\* C1 witness: a keyword's type is returned at 1.0 ahead of a type that was hit
\* by a lower tier only.
C1_Witness ==
    /\ last.op = "search"
    /\ \E ty \in Types :
           /\ <<last.query, ty>> \in built
           /\ ReturnedExact(last.result, ty)
           /\ \E j \in 1..Len(last.result) :
                  last.result[j][1] \notin ExactTypes(last.query)

\* the order of the tiers as C2 states it
ClaimedRank(tier) ==
    IF tier = "exact" THEN 0 ELSE IF tier = "prefix" THEN 1
    ELSE IF tier = "pattern" THEN 2 ELSE 3

\* the order of the tiers the decay factors 1.0, 0.9, 1.0, 0.7 give
DecayRank(tier) ==
    IF tier = "exact" THEN 0 ELSE IF tier = "pattern" THEN 1
    ELSE IF tier = "prefix" THEN 2 ELSE 3

\* C2 as stated: for equal stored base confidences the confidence search
\* assigns is ordered exact >= prefix >= pattern >= partial.
C2_TierOrderAsClaimed ==
    last.op = "search" =>
        \A h1, h2 \in Range(last.hits) :
            (h1.base = h2.base /\ ClaimedRank(h1.tier) < ClaimedRank(h2.tier))
                => h1.confidence >= h2.confidence

\* C2 amended: for equal stored base confidences the order is
\* exact = pattern >= prefix (x 0.9) >= partial (x 0.7), so no lower tier
\* outranks an exact match of the same base confidence; with the base
\* confidences build_indexes stores (exact 1.0, trie 0.9, pattern 0.8) the
\* order is exact 1.0 >= prefix 0.81 >= pattern 0.8 >= partial 0.7.
C2_TierOrderByDecay ==
    last.op = "search" =>
        \A h1, h2 \in Range(last.hits) :
            /\ (h1.base = h2.base /\ DecayRank(h1.tier) < DecayRank(h2.tier))
                   => h1.confidence >= h2.confidence
            /\ (/\ h1.source \in {"keyword", "pattern"}
                /\ h2.source \in {"keyword", "pattern"}
                /\ ClaimedRank(h1.tier) < ClaimedRank(h2.tier))
                   => h1.confidence >= h2.confidence

\* C2 witness: one search with a prefix hit, a pattern hit and an exact hit of
\* the same positive base confidence, and one with a prefix and a partial hit.
C2_Witness ==
    /\ last.op = "search"
    /\ \E h1, h2, h3 \in Range(last.hits) :
           /\ h1.tier = "exact" /\ h2.tier = "prefix" /\ h3.tier = "pattern"
           /\ h1.base = h2.base /\ h2.base = h3.base /\ h1.base > 0

----------------------------------------------------------------------------
(* Claims about the entity-type cache and the layered inferer (SpecInfer). *)

\* what it is for a tier to hit, stated on the state and not through the cascade
CacheHits(entity_name) ==
    /\ Lower(entity_name) \in DOMAIN verified_entities
    /\ verified_entities[Lower(entity_name)].confidence > 90

IndexHits(entity_name) == Search(inverted, trie, patterns, entity_name, 1) # <<>>

PatternHits(entity_name) ==
    \E pr \in Range(BankPairs(type_patterns)) :
        Compiles(pr[2]) /\ ReMatch(pr[2], entity_name)

KeywordHits(entity_name) ==
    \E pr \in Range(BankPairs(type_keywords)) : Contains(Lower(entity_name), pr[2])

ContextHits(context) ==
    /\ context # <<>>
    /\ \E pr \in Range(BankPairs(context_indicators)) : Contains(Lower(context), pr[2])

FirstHittingTier(entity_name, context) ==
    IF CacheHits(entity_name) THEN "cache"
    ELSE IF IndexHits(entity_name) THEN "index"
    ELSE IF PatternHits(entity_name) THEN "pattern"
    ELSE IF KeywordHits(entity_name) THEN "keyword"
    ELSE IF ContextHits(context) THEN "context"
    ELSE "unknown"

FixedConfidence(method) ==
    IF method = "pattern" THEN 800 ELSE IF method = "keyword" THEN 700 ELSE 600

\* C3: infer_entity_type ends at the first tier that hits, in the order cache,
\* index, pattern, keyword, context, unknown: the returned method names that
\* tier, pattern/keyword/context hits carry 0.8/0.7/0.6, and the result is
\* (None, 0.0, unknown) exactly when no tier hits.
C3_CascadeEndsAtFirstHit ==
    infLast.op = "infer_entity_type" =>
        LET r == infLast.result
            tier == FirstHittingTier(infLast.entity_name, infLast.context)
        IN  /\ r.method = tier
            /\ r.method \in {"pattern", "keyword", "context"}
                   => r.confidence = FixedConfidence(r.method)
            /\ (r = InferenceResult(None, 0, "unknown")) <=> (tier = "unknown")

\* C3, the calls that return: the same statement for every call of
\* infer_entity_type that does not raise.
C3_ReturningCallsEndAtFirstHit ==
    (infLast.op = "infer_entity_type" /\ infLast.result.method # Raised) =>
        LET r == infLast.result
            tier == FirstHittingTier(infLast.entity_name, infLast.context)
        IN  /\ r.method = tier
            /\ r.method \in {"pattern", "keyword", "context"}
                   => r.confidence = FixedConfidence(r.method)
            /\ (r = InferenceResult(None, 0, "unknown")) <=> (tier = "unknown")

\* C4: for every cached name the stored type, confidence and source are those
\* of the first record call for that name, and count is the number of calls.
C4_FirstRecordWins ==
    /\ DOMAIN verified_entities = DOMAIN history
    /\ \A key \in DOMAIN verified_entities :
           /\ verified_entities[key].type = history[key].type
           /\ verified_entities[key].confidence = history[key].confidence
           /\ verified_entities[key].source = history[key].source
           /\ verified_entities[key].count = history[key].calls

\* C4 witness: a name recorded at least twice, the latest call submitting a
\* type, confidence and source other than the first call's.
C4_Witness ==
    \E key \in DOMAIN verified_entities :
        /\ history[key].calls >= 2
        /\ history[key].latest[1] # history[key].type
        /\ history[key].latest[2] # history[key].confidence
        /\ history[key].latest[3] # history[key].source

\* the cascade without its cache tier
InferWithoutCache(entity_name, context) ==
    InferEntityType([k \in {} |-> None], inverted, trie, patterns, type_keywords,
                    type_patterns, context_indicators, entity_name, context)

\* C5: infer_entity_type answers from the cache iff the cache holds an entry
\* for the lower-cased name with confidence strictly above 0.9; otherwise the
\* answer is that of the later tiers.
C5_CacheAnswersIffTrusted ==
    infLast.op = "infer_entity_type" =>
        LET r == infLast.result
            key == Lower(infLast.entity_name)
            trusted == /\ key \in DOMAIN verified_entities
                       /\ verified_entities[key].confidence > confidence_threshold
        IN  /\ (r.method = "cache") <=> trusted
            /\ trusted => /\ r.entity_type = verified_entities[key].type
                          /\ r.confidence = verified_entities[key].confidence * 10
            /\ ~trusted => r = InferWithoutCache(infLast.entity_name, infLast.context)

\* C5 witness: a name cached with confidence exactly 0.9 is inferred, and a
\* later tier answers.
C5_Witness ==
    /\ infLast.op = "infer_entity_type"
    /\ Lower(infLast.entity_name) \in DOMAIN verified_entities
    /\ verified_entities[Lower(infLast.entity_name)].confidence = confidence_threshold
    /\ infLast.result.method \in {"index", "pattern", "keyword", "context"}

----------------------------------------------------------------------------
(* Claims about SchemaDetector.detect_schema (SpecDetect). *)

\* the response names the candidate's identifier
Names(response, candidate) == Contains(response, candidate.schema_file)

\* C6: whenever the top two scores differ by less than 0.10 and the oracle's
\* answer is the second-ranked schema's identifier, the returned ranking has
\* that schema first, with the bonus 0.1 added to its confidence, for every
\* pair of schema identifiers.
C6_OracleChoiceOfSecondWins ==
    (/\ detLast.op = "detect_schema"
     /\ TieBreakApplies(detLast.ranked, detLast.use_llm)
     /\ detLast.oracle.kind = "response"
     /\ detLast.oracle.text = detLast.ranked[2].schema_file)
        => /\ detLast.results[1].schema_file = detLast.ranked[2].schema_file
           /\ detLast.results[1].confidence = detLast.ranked[2].confidence + LLMBonus

\* C6, identifiers that do not contain one another: the same statement when
\* the first-ranked identifier is not a substring of the second-ranked one.
C6_HoldsForUnnestedIdentifiers ==
    (/\ detLast.op = "detect_schema"
     /\ TieBreakApplies(detLast.ranked, detLast.use_llm)
     /\ detLast.oracle.kind = "response"
     /\ detLast.oracle.text = detLast.ranked[2].schema_file
     /\ ~Contains(detLast.ranked[2].schema_file, detLast.ranked[1].schema_file))
        => /\ detLast.results[1].schema_file = detLast.ranked[2].schema_file
           /\ detLast.results[1].confidence = detLast.ranked[2].confidence + LLMBonus

\* the oracle call failed, or its answer names neither or both candidates
OracleFailedOrAmbiguous ==
    \/ detLast.oracle.kind \in {"api_error", "exception"}
    \/ /\ detLast.oracle.kind = "response"
       /\ Names(detLast.oracle.text, detLast.ranked[1])
              <=> Names(detLast.oracle.text, detLast.ranked[2])

\* C7: when the tie-break applies and the oracle call fails or its answer is
\* ambiguous, detect_schema returns the candidates in their pre-oracle order
\* and no candidate receives the bonus.
C7_FailedOracleLeavesRanking ==
    (/\ detLast.op = "detect_schema"
     /\ TieBreakApplies(detLast.ranked, detLast.use_llm)
     /\ OracleFailedOrAmbiguous)
        => detLast.results = detLast.ranked

\* C8: every result returned by detect_schema has confidence within [0,1].
C8_ConfidenceWithinUnit ==
    detLast.op = "detect_schema" =>
        \A i \in 1..Len(detLast.results) :
            /\ detLast.results[i].confidence >= 0
            /\ detLast.results[i].confidence =< One

\* 0.4 * ontology + 0.3 * seed + 0.3 * structural for the i-th registered
\* schema on the document, the seed score 0 without seed knowledge
WeightedScore(i) ==
    LET schema == SchemaRegistry[i]
        m == document.matches[i]
    IN  4 * OntologyScore(schema, m.entities, m.keywords)
        + (IF document.seed_supplied
           THEN 3 * SeedScore(schema, m.relations, m.seed_entities) ELSE 0)
        + 3 * DocumentScore(m.structure)

\* the registered schemas whose weighted score is strictly above 0.05
AboveFloor == {i \in 1..Len(SchemaRegistry) : WeightedScore(i) > ScoreFloor}

\* C17: before any tie-break the result list of detect_schema holds exactly
\* the registered schemas whose score 0.4*ontology + 0.3*seed + 0.3*structural
\* is strictly above 0.05, each with that score as its confidence, in
\* descending order of confidence; it is the empty list when no schema clears
\* the floor, and it is the returned list when no tie-break applies.
C17_RankedAreSchemasAboveFloor ==
    detLast.op = "detect_schema" =>
        LET ranked == detLast.ranked
        IN  /\ Len(ranked) = Cardinality(AboveFloor)
            /\ \A i \in AboveFloor :
                   \E j \in 1..Len(ranked) :
                       /\ ranked[j].schema_file = SchemaRegistry[i].schema_file
                       /\ ranked[j].confidence = WeightedScore(i)
            /\ \A j \in 1..(Len(ranked) - 1) :
                   ranked[j].confidence >= ranked[j + 1].confidence
            /\ AboveFloor = {} => detLast.results = <<>>
            /\ ~TieBreakApplies(ranked, detLast.use_llm) => detLast.results = ranked

\* C17 witness: without seed knowledge, on a document whose seed entities
\* would match a schema, one schema scores above zero but not above the
\* floor and is left out, and two schemas are listed, the one loaded later
\* first.
C17_Witness ==
    /\ detLast.op = "detect_schema"
    /\ ~document.seed_supplied
    /\ \E i \in 1..Len(SchemaRegistry) : document.matches[i].seed_entities > 0
    /\ \E i \in 1..Len(SchemaRegistry) :
           WeightedScore(i) > 0 /\ WeightedScore(i) =< ScoreFloor
    /\ Len(detLast.ranked) = 2
    /\ detLast.ranked[1].confidence > detLast.ranked[2].confidence
    /\ \E i, j \in 1..Len(SchemaRegistry) :
           /\ i < j
           /\ detLast.ranked[1].schema_file = SchemaRegistry[j].schema_file
           /\ detLast.ranked[2].schema_file = SchemaRegistry[i].schema_file

\* Claims about SchemaBasedKGBuilder.build_knowledge_graph (SpecBuild).

\* a run of build_knowledge_graph that recorded its schema_detection stage
StageRecorded == detLast.op = "build_knowledge_graph" /\ ~detLast.raised

\* C28: in build_knowledge_graph the schema selected for extraction is the
\* first candidate of the candidate list recorded in the same run's
\* schema_detection stage, whatever the oracle answers on each call.
C28_SelectedIsFirstCandidate ==
    StageRecorded =>
        /\ detLast.candidates # <<>>
        /\ detLast.selected_schema = Some(detLast.candidates[1].schema_file)

\* C28, the part that holds: the selected schema is one of the recorded
\* candidates, and it is the first one when the oracle gave both calls the
\* same answer or the top two scores are 0.10 or more apart
C28_HoldsForRepeatedAnswers ==
    StageRecorded =>
        /\ \E i \in 1..Len(detLast.candidates) :
               detLast.selected_schema = Some(detLast.candidates[i].schema_file)
        /\ (detLast.oracle = detLast.second_oracle
            \/ ~TieBreakApplies(detLast.ranked, TRUE))
               => detLast.selected_schema = Some(detLast.candidates[1].schema_file)

----------------------------------------------------------------------------
(* Claims about HybridTripleExtractor.extract_triples (SpecHybrid). *)

\* the rule triple count is below 3
TooFewRuleTriples == Len(extraction.rule_triples) < 3

\* the fraction of rule triples with confidence >= 0.6 is below one half
LowRuleQuality ==
    /\ Len(extraction.rule_triples) > 0
    /\ 2 * Cardinality({i \in 1..Len(extraction.rule_triples) :
                           extraction.rule_triples[i].confidence >= 60})
           < Len(extraction.rule_triples)

\* the rule triple count is below half of the expected count max(3, complexity // 100)
TooSparseForText ==
    2 * Len(extraction.rule_triples)
        < Max(3, CalculateTextComplexity(extraction.text) \div 100)

\* C9: each of the three triggers alone (rule triple count below 3; fraction
\* of rule triples with confidence >= 0.6 below one half; rule triple count
\* below half of the expected count) forces the oracle fallback pass, and the
\* result that extract_triples returns carries the llm_extraction method tag.
C9_EachTriggerForcesOracle ==
    (/\ hybLast.op = "extract_triples"
     /\ TooFewRuleTriples \/ LowRuleQuality \/ TooSparseForText)
        => /\ hybLast.result.llm_invoked
           /\ ~hybLast.result.raised
                  => "llm_extraction" \in Range(hybLast.result.methods_used)

\* C9 witness: only the third trigger holds, and the returned result of the
\* call is tagged with the oracle pass.
C9_Witness ==
    /\ hybLast.op = "extract_triples"
    /\ ~TooFewRuleTriples
    /\ ~LowRuleQuality
    /\ TooSparseForText
    /\ hybLast.result.llm_invoked
    /\ ~hybLast.result.raised
    /\ hybLast.result.methods_used = <<"rule_extraction", "llm_extraction">>

\* C26: if the rule output has at least 3 triples, at least half of them
\* have confidence >= 0.6 and their count is at least half of the expected
\* count max(3, complexity // 100), then extract_triples makes no oracle
\* call, reports llm_count = 0 and methods_used = [rule_extraction], and
\* returns only rule-derived triples.
C26_SufficientRulesNoOracle ==
    (/\ hybLast.op = "extract_triples"
     /\ ~TooFewRuleTriples
     /\ ~LowRuleQuality
     /\ ~TooSparseForText)
        => /\ ~hybLast.result.llm_invoked
           /\ ~hybLast.result.raised
           /\ hybLast.result.llm_count = 0
           /\ hybLast.result.llm_triples = <<>>
           /\ hybLast.result.methods_used = <<"rule_extraction">>
           /\ Range(hybLast.result.triples) \subseteq Range(extraction.rule_triples)

\* C26 witness: a call with sufficient rule output on a text of non-zero
\* complexity, while the oracle stood ready to answer with triples
C26_Witness ==
    /\ hybLast.op = "extract_triples"
    /\ ~TooFewRuleTriples
    /\ ~LowRuleQuality
    /\ ~TooSparseForText
    /\ CalculateTextComplexity(extraction.text) > 100
    /\ \E i \in 1..Len(extraction.rule_triples) :
           extraction.rule_triples[i].confidence < 60
    /\ hybLast.oracle.kind = "json_list"
    /\ hybLast.oracle.items # <<>>
    /\ hybLast.result.triples # <<>>
    /\ hybLast.result.llm_count = 0

\* the triples handed to the merge step of the last call
MergeInputs == extraction.rule_triples \o hybLast.result.llm_triples

\* C10: the merge step's output has at most one triple per normalized key,
\* every key of the input appears with the maximum confidence among the rule
\* and oracle input triples of that key, and the output is ordered by
\* confidence descending.
C10_MergeKeepsMaxPerKeySorted ==
    (hybLast.op = "extract_triples" /\ ~hybLast.result.raised) =>
        LET out == hybLast.result.triples
        IN  /\ \A i, j \in 1..Len(out) :
                   TripleKey(out[i]) = TripleKey(out[j]) => i = j
            /\ \A k \in 1..Len(MergeInputs) :
                   \E i \in 1..Len(out) :
                       /\ TripleKey(out[i]) = TripleKey(MergeInputs[k])
                       /\ Confidence(out[i]) >= Confidence(MergeInputs[k])
            /\ \A i \in 1..Len(out) :
                   \E k \in 1..Len(MergeInputs) : MergeInputs[k] = out[i]
            /\ \A i \in 1..(Len(out) - 1) :
                   Confidence(out[i]) >= Confidence(out[i + 1])

\* C10 witness: a rule triple and a later oracle triple that differ in case
\* and whitespace share a key, the oracle triple has the higher confidence
\* and is the one retained, and the output holds a second key behind it.
C10_Witness ==
    /\ hybLast.op = "extract_triples"
    /\ ~hybLast.result.raised
    /\ Len(hybLast.result.triples) >= 2
    /\ \E r \in 1..Len(extraction.rule_triples),
          l \in 1..Len(hybLast.result.llm_triples) :
           LET rule == extraction.rule_triples[r]
               llm == hybLast.result.llm_triples[l]
           IN  /\ TripleKey(rule) = TripleKey(llm)
               /\ rule.subject # llm.subject
               /\ Confidence(llm) > Confidence(rule)
               /\ hybLast.result.triples[1] = llm

\* C11: merging a triple set X produced by the merge step with itself yields
\* exactly the triples of X, in the same order and with unchanged
\* confidences, and so does merging X with the empty set.
C11_MergeWithItselfIsNoOp ==
    (hybLast.op = "extract_triples" /\ ~hybLast.result.raised) =>
        LET X == hybLast.result.triples
        IN  /\ MergeAndDeduplicate(X, X) = [raised |-> FALSE, triples |-> X]
            /\ MergeAndDeduplicate(X, <<>>) = [raised |-> FALSE, triples |-> X]
            /\ MergeAndDeduplicate(<<>>, X) = [raised |-> FALSE, triples |-> X]

\* C11 witness: X holds two keys, one of them retained from a collision of
\* a rule triple with an oracle triple, and merging X with itself gives X.
C11_Witness ==
    /\ hybLast.op = "extract_triples"
    /\ ~hybLast.result.raised
    /\ Len(hybLast.result.triples) >= 2
    /\ Len(hybLast.result.triples) < Len(MergeInputs)
    /\ MergeAndDeduplicate(hybLast.result.triples, hybLast.result.triples).triples
           = hybLast.result.triples

\* the oracle's response of the last call is unusable: the call failed, the
\* text is not JSON or is invalid JSON, or an item of the list is not an
\* object or lacks subject, predicate or object
OracleUnusable ==
    \/ hybLast.oracle.kind \in {"api_error", "not_json", "invalid_json"}
    \/ /\ hybLast.oracle.kind = "json_list"
       /\ \E i \in 1..Len(hybLast.oracle.items) :
              hybLast.oracle.items[i].shape # "triple"

\* C12: whatever the oracle does during the fallback pass (fails, answers
\* with text that is not JSON or is invalid JSON, or with a list whose items
\* are not objects or lack subject/predicate/object), extract_triples
\* returns normally, its result holds every rule-extracted triple key, and
\* the unusable response contributes no triples.
C12_UnusableOracleNeverFatal ==
    (/\ hybLast.op = "extract_triples"
     /\ hybLast.result.llm_invoked
     /\ OracleUnusable)
        => /\ ~hybLast.result.raised
           /\ hybLast.result.llm_count = 0
           /\ \A r \in 1..Len(extraction.rule_triples) :
                  \E i \in 1..Len(hybLast.result.triples) :
                      TripleKey(hybLast.result.triples[i])
                          = TripleKey(extraction.rule_triples[r])

\* C12, responses that are no JSON list: the same statement when the oracle
\* answers with text that is not JSON or is invalid JSON.
C12_HoldsForUnparseableText ==
    (/\ hybLast.op = "extract_triples"
     /\ hybLast.result.llm_invoked
     /\ hybLast.oracle.kind \in {"not_json", "invalid_json"})
        => /\ ~hybLast.result.raised
           /\ hybLast.result.llm_count = 0
           /\ \A r \in 1..Len(extraction.rule_triples) :
                  \E i \in 1..Len(hybLast.result.triples) :
                      TripleKey(hybLast.result.triples[i])
                          = TripleKey(extraction.rule_triples[r])

\* the fallback pass of the last call met a failing transport call
TransportFailed ==
    /\ hybLast.op = "extract_triples"
    /\ hybLast.result.llm_invoked
    /\ hybLast.oracle.kind = "api_error"

\* the triple is one that rule extraction produced from the input text
RuleProduced(triple) ==
    \E r \in 1..Len(extraction.rule_triples) : extraction.rule_triples[r] = triple

\* C30: if the oracle transport call fails during the fallback pass, the
\* final triple set holds only triples that rule extraction produced from
\* the input text.
C30_FailedTransportOnlyRuleTriples ==
    TransportFailed =>
        /\ ~hybLast.result.raised
        /\ \A i \in 1..Len(hybLast.result.triples) :
               RuleProduced(hybLast.result.triples[i])

\* C30, the part that holds: after a failed transport call the call returns
\* normally and every triple of the final set is a rule triple or one of the
\* canned triples of _mock_response; when the oracle answers with text that
\* is not JSON or is invalid JSON, the final set holds rule triples only.
C30_HoldsUpToMockResponse ==
    /\ TransportFailed =>
           /\ ~hybLast.result.raised
           /\ \A i \in 1..Len(hybLast.result.triples) :
                  \/ RuleProduced(hybLast.result.triples[i])
                  \/ \E m \in 1..Len(MockResponseTriples) :
                         hybLast.result.triples[i] = TagLLMTriples(MockResponseTriples)[m]
    /\ (/\ hybLast.op = "extract_triples"
        /\ hybLast.result.llm_invoked
        /\ hybLast.oracle.kind \in {"not_json", "invalid_json"})
           => \A i \in 1..Len(hybLast.result.triples) :
                  RuleProduced(hybLast.result.triples[i])

----------------------------------------------------------------------------
(* Claims about the rule path of the hybrid extractor (SpecRules). *)

\* "Ant Colony Optimization is an Algorithm. Ant Colony Optimization solves
\* Traveling Salesman Problem."
AntColonyText ==
    <<<<"A", "n", "t">>, <<"C", "o", "l", "o", "n", "y">>, <<"O", "p", "t", "i", "m", "i", "z", "a", "t", "i", "o", "n">>, <<"i", "s">>, <<"a", "n">>, <<"A", "l", "g", "o", "r", "i", "t", "h", "m">>, FullStop,
      <<"A", "n", "t">>, <<"C", "o", "l", "o", "n", "y">>, <<"O", "p", "t", "i", "m", "i", "z", "a", "t", "i", "o", "n">>, <<"s", "o", "l", "v", "e", "s">>,
      <<"T", "r", "a", "v", "e", "l", "i", "n", "g">>, <<"S", "a", "l", "e", "s", "m", "a", "n">>, <<"P", "r", "o", "b", "l", "e", "m">>, FullStop>>

\* the result holds a triple of this key with confidence >= 0.7 that the
\* rule path produced
RuleTripleInResult(subject, predicate, object) ==
    \E i \in 1..Len(hybLast.result.triples) :
        LET triple == hybLast.result.triples[i]
        IN  /\ TripleKey(triple) = <<Lower(subject), Lower(predicate), Lower(object)>>
            /\ Confidence(triple) >= 70
            /\ triple.method # "llm_extraction"
            /\ \E r \in 1..Len(extraction.rule_triples) : extraction.rule_triples[r] = triple

\* C13: for the text "Ant Colony Optimization is an Algorithm. Ant Colony
\* Optimization solves Traveling Salesman Problem." the extractor output
\* contains (Ant Colony Optimization, is_instance_of, Algorithm) and (Ant
\* Colony Optimization, solves, Traveling Salesman Problem), each with
\* confidence >= 0.7 and produced by the rule path, without an oracle call.
C13_AntColonyTriplesByRules ==
    (hybLast.op = "extract_triples" /\ source_text = AntColonyText) =>
        /\ ~hybLast.result.raised
        /\ ~hybLast.result.llm_invoked
        /\ RuleTripleInResult(JoinTokens(SubSeq(AntColonyText, 1, 3)),
                              PredicateIsInstanceOf, AntColonyText[6])
        /\ RuleTripleInResult(JoinTokens(SubSeq(AntColonyText, 1, 3)),
                              AntColonyText[11],
                              JoinTokens(SubSeq(AntColonyText, 12, 14)))

\* C13, what the rule path yields: every rule triple has one word as its
\* subject and one as its object, and none has a predicate other than
\* is_instance_of and locatedAt.
C13_RuleTriplesJoinSingleWords ==
    hybLast.op = "extract_triples" =>
        \A r \in 1..Len(extraction.rule_triples) :
            /\ IsWordToken(extraction.rule_triples[r].subject)
            /\ IsWordToken(extraction.rule_triples[r].object)
            /\ extraction.rule_triples[r].predicate
                   \in {PredicateIsInstanceOf, PredicateLocatedAt}

----------------------------------------------------------------------------
(* Claims about DomainTemplateManager (SpecRegistry). *)

\* an identifier given to the last registry operation is not registered
AbsentIdGiven ==
    \E i \in 1..Len(regLast.ids) :
        IF regLast.op = "load_template" THEN regLast.ids[i] \notin TemplateFiles
        ELSE regLast.ids[i] \notin DOMAIN templates

\* C14: every registry operation given an identifier that is not in the
\* registry reports it, by returning the not-found value or raising a
\* not-found error: get/load, the source id of derive, and each id of the
\* list given to merge.
C14_AbsentIdIsReported ==
    (/\ regLast.op \in {"get_template", "load_template",
                        "create_template_from_existing", "merge_templates"}
     /\ AbsentIdGiven)
        => regLast.outcome \in {"None", "ValueError"}

\* C14, the operations on one identifier: get, load and derive report an
\* absent identifier.
C14_HoldsForGetLoadDerive ==
    (/\ regLast.op \in {"get_template", "load_template",
                        "create_template_from_existing"}
     /\ AbsentIdGiven)
        => regLast.outcome \in {"None", "ValueError"}

\* C15: derive returns a deep copy: a modification of the derived template
\* leaves what its source in the registry holds unchanged, and a
\* modification of the source leaves the derived template unchanged.
C15_DerivedIsDeepCopy ==
    regLast.op \in {"modify_in_place", "assign_entry"} =>
        /\ (regLast.owner = "held" /\ held[regLast.name].derived_from # "none") =>
               LET source == held[regLast.name].derived_from
               IN  DeepValue(templates[source], heap) = regLast.before.registry[source]
        /\ regLast.owner = "registry" =>
               \A d \in DOMAIN held :
                   held[d].derived_from = regLast.name =>
                       DeepValue(held[d].template, heap) = regLast.before.held[d]

\* C15, entries stored anew: storing a new list or inner dict under an
\* entity type of the derived template, or of its source, leaves the other
\* template unchanged.
C15_HoldsForAssignedEntries ==
    regLast.op = "assign_entry" =>
        /\ (regLast.owner = "held" /\ held[regLast.name].derived_from # "none") =>
               LET source == held[regLast.name].derived_from
               IN  DeepValue(templates[source], heap) = regLast.before.registry[source]
        /\ regLast.owner = "registry" =>
               \A d \in DOMAIN held :
                   held[d].derived_from = regLast.name =>
                       DeepValue(held[d].template, heap) = regLast.before.held[d]

----------------------------------------------------------------------------
(* Claims about invalid regular expressions (SpecInfer). *)

\* a pattern bank without the patterns that do not compile
WithoutInvalid(bank) ==
    [i \in 1..Len(bank) |->
        <<bank[i][1], SelectSeq(bank[i][2], LAMBDA pattern : Compiles(pattern))>>]

\* the schema in use has an invalid pattern in its pattern vocabulary
InvalidPatternInBank ==
    \E i \in 1..Len(type_patterns) :
        \E j \in 1..Len(type_patterns[i][2]) : ~Compiles(type_patterns[i][2][j])

\* C16: an invalid regular expression in a schema's patterns is dropped and
\* never fatal: the index built from the schema holds no such pattern, and
\* infer_entity_type under the schema does not raise and returns what it
\* returns with the invalid patterns removed from the schema.
C16_InvalidPatternDroppedNeverFatal ==
    /\ \A i \in 1..Len(patterns) : Compiles(patterns[i][1])
    /\ infLast.op = "infer_entity_type" =>
           /\ infLast.result.method # Raised
           /\ infLast.result =
                  InferEntityType(verified_entities, inverted, trie, patterns,
                                  type_keywords, WithoutInvalid(type_patterns),
                                  context_indicators,
                                  infLast.entity_name, infLast.context)

\* C16, the part that holds: the index never stores a pattern that does not
\* compile, and every call of infer_entity_type that ends at the cache, the
\* index or a matching pattern gives the result the schema without its
\* invalid patterns gives.
C16_HoldsForIndexAndEarlierTiers ==
    /\ \A i \in 1..Len(patterns) : Compiles(patterns[i][1])
    /\ (/\ infLast.op = "infer_entity_type"
        /\ infLast.result.method \in {"cache", "index", "pattern"})
           => infLast.result =
                  InferEntityType(verified_entities, inverted, trie, patterns,
                                  type_keywords, WithoutInvalid(type_patterns),
                                  context_indicators,
                                  infLast.entity_name, infLast.context)

----------------------------------------------------------------------------
(* Claims about EntityTypeInferer.infer_entity_types_from_triples          *)
(* (SpecTypes).                                                            *)

\* the i-th triple declares the type of its subject
Declares(i) ==
    /\ triples[i].predicate = PredIsInstanceOf
    /\ triples[i].object \in known_types

\* the known types the triples declare for the entity
DeclaredTypes(entity) ==
    {triples[i].object : i \in {j \in 1..Len(triples) :
                                    Declares(j) /\ triples[j].subject = entity}}

\* the triples other than declarations that name the entity
OtherMentions(entity) ==
    {i \in 1..Len(triples) :
        /\ ~Declares(i)
        /\ entity \in {triples[i].subject, triples[i].object}}

\* C18: every entity that is the subject of an is_instance_of triple whose
\* object is a known type is assigned that declared type, whatever the
\* name-keyword and relation-pattern votes for the entity are (stated for
\* the entities that have one declared type).
C18_DeclaredTypeWins ==
    typLast.op = "infer_entity_types_from_triples" =>
        \A i \in 1..Len(triples) :
            (Declares(i) /\ Cardinality(DeclaredTypes(triples[i].subject)) = 1)
                => /\ triples[i].subject \in DOMAIN typLast.final_types
                   /\ typLast.final_types[triples[i].subject] = triples[i].object

\* C18, few other votes: an entity with one declared type that at most one
\* triple other than its declarations names is assigned the declared type.
C18_HoldsWithOneOtherMention ==
    typLast.op = "infer_entity_types_from_triples" =>
        \A i \in 1..Len(triples) :
            (/\ Declares(i)
             /\ Cardinality(DeclaredTypes(triples[i].subject)) = 1
             /\ Cardinality(OtherMentions(triples[i].subject)) =< 1)
                => /\ triples[i].subject \in DOMAIN typLast.final_types
                   /\ typLast.final_types[triples[i].subject] = triples[i].object

----------------------------------------------------------------------------
(* Claims about the tier progression of MultiLevelIndex.search and about   *)
(* TrieIndex.search_prefix (specification Spec).                           *)

\* every entry of the trie whose term starts with the prefix
PrefixEntries(prefix) ==
    UNION {Range(trie[p].entries) : p \in {q \in DOMAIN trie : StartsWith(q, Lower(prefix))}}

\* the entity types the four tiers together match for the query
AllTierTypes(query) ==
    {e.entity_type : e \in Range(InvertedGet(inverted, query))}
    \cup {e.entity_type : e \in PrefixEntries(query)}
    \cup {e.entity_type : e \in Range(PatternMatch(patterns, query))}
    \cup {e.entity_type : e \in Range(SearchPartial(inverted, query))}

\* the entity types of a result of search
ResultTypes(result) == {result[i][1] : i \in 1..Len(result)}

\* C19: search goes on to the next tier whenever fewer than top_k distinct
\* types have been found, so the result has top_k distinct types whenever the
\* four tiers together match at least top_k distinct types for the query.
C19_TopKTypesWheneverMatched ==
    (last.op = "search" /\ Cardinality(AllTierTypes(last.query)) >= last.top_k)
        => Cardinality(ResultTypes(last.result)) = last.top_k

\* C19, counted in hits: when fewer than top_k hits were collected no tier
\* was left out, and the result holds every type the four tiers match; a
\* result never holds more than top_k types nor a type no tier matches.
C19_HoldsWhenHitsBelowTopK ==
    last.op = "search" =>
        /\ Len(last.hits) < last.top_k
               => ResultTypes(last.result) = AllTierTypes(last.query)
        /\ Len(last.result) =< last.top_k
        /\ Cardinality(ResultTypes(last.result)) = Len(last.result)
        /\ ResultTypes(last.result) \subseteq AllTierTypes(last.query)

\* C20: search_prefix(prefix, max_results) never returns more than
\* max_results entries, whatever the trie holds, and the term of every
\* returned entry starts with the prefix (letter case aside).
C20_PrefixResultsWithinCap ==
    last.op = "search_prefix" =>
        /\ Len(last.result) =< last.top_k
        /\ \A i \in 1..Len(last.result) :
               StartsWith(Lower(last.result[i].term), Lower(last.query))

\* C20, one entry per node: the cap holds when no node of the trie holds
\* more than one entry, and in every case the entries returned beyond the
\* cap belong to the last node collected and every returned term starts
\* with the prefix.
C20_HoldsForSingleEntryNodes ==
    last.op = "search_prefix" =>
        /\ (\A p \in DOMAIN trie : Len(trie[p].entries) =< 1)
               => Len(last.result) =< last.top_k
        /\ Len(last.result) > last.top_k =>
               \A i \in last.top_k..Len(last.result) :
                   Lower(last.result[i].term) = Lower(last.result[Len(last.result)].term)
        /\ \A i \in 1..Len(last.result) :
               StartsWith(Lower(last.result[i].term), Lower(last.query))

----------------------------------------------------------------------------
(* Claims about the stored index (specification SpecStore). *)

\* two entries of a list with the same (term, entity type, source)
HasDuplicate(entries) ==
    \E i, j \in 1..Len(entries) :
        /\ i < j
        /\ entries[i].term = entries[j].term
        /\ entries[i].entity_type = entries[j].entity_type
        /\ entries[i].source = entries[j].source

InvertedHasDuplicate == \E i \in 1..Len(inverted) : HasDuplicate(inverted[i][2])

TrieHasDuplicate == \E p \in DOMAIN trie : HasDuplicate(trie[p].entries)

\* C21: after any sequence of build_indexes, add_learned_term and
\* batch_update calls, neither the inverted index nor the trie holds two
\* entries with the same (term, entity type, source).
C21_NoDuplicateEntries == ~InvertedHasDuplicate /\ ~TrieHasDuplicate

\* C21, the part that holds: the inverted index holds no two entries with
\* the same (term, entity type, source)
C21_HoldsForInvertedIndex == ~InvertedHasDuplicate

\* the restored index answers every query as the index that was saved did
SameSearches ==
    \A q \in Queries, k \in 1..MaxTopK :
        Search(inverted, trie, patterns, q, k)
            = Search(origin.inverted, origin.trie, origin.patterns, q, k)

Restored == disk.exists /\ last.op \in {"load_indexes", "load_indexes_fresh"}

\* C29: search on an index restored by load_indexes from the files written
\* by save_indexes returns the same ranked list as the saved index did, for
\* every query and top_k.
C29_ReloadPreservesSearch == Restored => SameSearches

\* C29, the part that holds: the restored index has the inverted index and
\* the patterns of the saved one, so the exact tier and the pattern tier
\* find the same entries
C29_HoldsForInvertedAndPatterns ==
    Restored => /\ inverted = origin.inverted
                /\ patterns = origin.patterns
                /\ \A q \in Queries :
                       InvertedGet(inverted, q) = InvertedGet(origin.inverted, q)

----------------------------------------------------------------------------
(* Claims about the list search returns (specification Spec). *)

HitsOfType(entity_type) ==
    {i \in 1..Len(last.hits) : last.hits[i].entity_type = entity_type}

\* C22: the list returned by search has no entity type twice, reports for
\* each returned type the maximum confidence among all hits collected for
\* that type, is sorted by confidence non-increasing, and has at most top_k
\* elements.
C22_DeduplicatedMaxSortedCapped ==
    last.op = "search" =>
        /\ \A i, j \in 1..Len(last.result) :
               i # j => last.result[i][1] # last.result[j][1]
        /\ \A i \in 1..Len(last.result) :
               /\ \E h \in HitsOfType(last.result[i][1]) :
                      last.hits[h].confidence = last.result[i][2]
               /\ \A h \in HitsOfType(last.result[i][1]) :
                      last.hits[h].confidence =< last.result[i][2]
        /\ \A i \in 1..(Len(last.result) - 1) :
               last.result[i][2] >= last.result[i + 1][2]
        /\ Len(last.result) =< last.top_k

\* C22 witness: a search whose hits name one type with two confidences, the
\* later one higher, and more types than top_k, so that the maximum and the
\* cut both act
C22_Witness ==
    /\ last.op = "search"
    /\ Len(last.result) = last.top_k
    /\ Cardinality({last.hits[i].entity_type : i \in 1..Len(last.hits)}) > last.top_k
    /\ \E i, j \in 1..Len(last.hits) :
           /\ i < j
           /\ last.hits[i].entity_type = last.hits[j].entity_type
           /\ last.hits[i].confidence < last.hits[j].confidence

----------------------------------------------------------------------------
(* Claims about the context tier, the banks and the cache (specification   *)
(* SpecInfer; SpecReview for the imported reviews).                         *)

\* the tiers before the context tier gave no answer to the last call
ReachedContextTier ==
    /\ infLast.op = "infer_entity_type"
    /\ infLast.result.method \in {"context", "unknown"}

\* the keyword tier's scoring scheme applied to the context bank
LengthScoredContextType(context) ==
    BestType(KeywordScores(BankPairs(context_indicators), Lower(context), <<>>))

\* C23: the context tier scores each type by the sum of the lengths of its
\* indicator words found in the context, as the keyword tier does, returns
\* the arg-max type at confidence 0.6 if any score is positive, and is
\* skipped when no context is supplied.
C23_ContextScoredAsKeywords ==
    ReachedContextTier =>
        infLast.result =
            IF infLast.context # <<>> /\ LengthScoredContextType(infLast.context) # None
            THEN InferenceResult(LengthScoredContextType(infLast.context), 600, "context")
            ELSE InferenceResult(None, 0, "unknown")

\* C23, the part that holds: the tier is skipped without a context, answers
\* at confidence 0.6 exactly when an indicator word is found in the context,
\* and gives the length-scored type whenever the found indicator words
\* belong to one type
C23_HoldsForSingleTypeContexts ==
    ReachedContextTier =>
        LET found == ContextScores(BankPairs(context_indicators),
                                   Lower(infLast.context), <<>>)
        IN  /\ infLast.context = <<>> => infLast.result.method = "unknown"
            /\ infLast.result.method = "context"
                   <=> (infLast.context # <<>> /\ found # <<>>)
            /\ infLast.result.method = "context" => infLast.result.confidence = 600
            /\ Len(found) = 1 =>
                   infLast.result.entity_type = LengthScoredContextType(infLast.context)

\* the banks of an inferer constructed for domain_name
FreshBanks(domain_name) ==
    LoadDomainConfig(BaseKeywords, BasePatterns, BaseContextIndicators, domain_name)

\* every entry of upd is an entry of bank
BankHolds(bank, upd) ==
    \A i \in 1..Len(upd) : \E j \in 1..Len(bank) : bank[j] = upd[i]

\* C24: after any sequence of switch_domain calls the banks that
\* infer_entity_type uses are those of the current schema, so a call answers
\* as an inferer constructed for the current schema would: vocabulary and
\* types that came only from an earlier schema have no influence.
C24_InferenceUsesCurrentSchemaOnly ==
    infLast.op = "infer_entity_type" =>
        infLast.result =
            InferEntityType(verified_entities, inverted, trie, patterns,
                            FreshBanks(current_domain)[1], FreshBanks(current_domain)[2],
                            FreshBanks(current_domain)[3],
                            infLast.entity_name, infLast.context)

\* C24, the part that holds: for every entity type the current schema names
\* in a bank, the bank holds the schema's list for that type
C24_HoldsForTypesOfCurrentSchema ==
    GetTemplate(current_domain) # Nothing =>
        LET template == GetTemplate(current_domain)[1]
        IN  /\ BankHolds(type_keywords, template.keywords)
            /\ BankHolds(type_patterns, template.patterns)
            /\ BankHolds(context_indicators, template.context_indicators)

\* C25: infer_entity_type (whether it hits the cache or not) and
\* switch_domain leave the cache as it is: no entry is added or removed and
\* no entry's type, confidence, source, count or last-used value changes.
C25_InferAndSwitchLeaveCache ==
    [][infLast'.op \in {"infer_entity_type", "switch_domain"}
          => verified_entities' = verified_entities]_vars

\* C25 witness: a call of infer_entity_type answered from a cache that also
\* holds an entry that is not trusted
C25_Witness ==
    /\ infLast.op = "infer_entity_type"
    /\ infLast.result.method = "cache"
    /\ \E key \in DOMAIN verified_entities :
           verified_entities[key].confidence =< confidence_threshold

\* C27: after import_reviewed_entities processes an approved review item,
\* the cache entry of its entity has confidence 1.0 and source
\* human_approved, so that infer_entity_type for it is answered from the
\* cache, also when the entity was cached with a lower confidence before.
C27_ApprovedEntityIsTrusted ==
    infLast.op = "import_reviewed_entities" =>
        \A i \in 1..Len(infLast.imported) :
            LET key == Lower(infLast.imported[i].entity)
            IN  /\ key \in DOMAIN verified_entities
                /\ verified_entities[key].confidence = 100
                /\ verified_entities[key].source = "human_approved"
                /\ CacheLookup(verified_entities, infLast.imported[i].entity) # Nothing

\* C27, the part that holds: the entity of a processed approved item is
\* cached, and it is cached at 1.0 as human_approved and answered from the
\* cache when its first record was a review
C27_HoldsForEntitiesFirstRecordedByReview ==
    infLast.op = "import_reviewed_entities" =>
        \A i \in 1..Len(infLast.imported) :
            LET key == Lower(infLast.imported[i].entity)
            IN  /\ key \in DOMAIN verified_entities
                /\ history[key].source = "human_approved" =>
                       /\ verified_entities[key].confidence = 100
                       /\ verified_entities[key].source = "human_approved"
                       /\ CacheLookup(verified_entities, infLast.imported[i].entity)
                              # Nothing

====
